---- MODULE Spec2Model ----
(***************************************************************************)
(* The OraSRS staking / threat-intelligence contract                       *)
(* (src/unnamed/part_000, src/unnamed/part_001) and the ThreatEvidence     *)
(* contract (src/contracts/ThreatEvidence.sol) as state machines.          *)
(*                                                                         *)
(* The Go contract keeps all of its state in the host key-value store.     *)
(* The store is modelled as a function from the literal key strings of the *)
(* source ("NODE_" + address, ...) to values; a JSON document is the       *)
(* record or sequence it encodes, an ASCII number is its decimal string.   *)
(* Get on a key that was never Put returns an error: this is what the      *)
(* contract relies on (isNonceUsed, isThreatReportDuplicate).              *)
(* A handler is an operator from (store, events, invocation context) to    *)
(* (store, events, payload, error), evaluated in the statement order of    *)
(* the source: the store and event log it returns hold every Put and       *)
(* EmitEvent made before it returned, also when it returns an error.       *)
(* The host runs one invocation as one transaction: it keeps what the      *)
(* handler wrote when the handler succeeds and discards it when the        *)
(* handler returns an error.                                               *)
(***************************************************************************)
EXTENDS Integers, Sequences, FiniteSets, TLC

VARIABLES
    store,      \* host key-value store: key string -> value
    events,     \* host event sink: sequence of <<name, fields>>
    now,        \* timestamp of the latest invocation (host clock, non-decreasing)
    lastErr,    \* the error the latest invocation returned (Nil when it succeeded)
    accepted,   \* history: the stake payloads that were accepted
    sol         \* the ThreatEvidence contract (Solidity): its storage and log

vars == <<store, events, now, lastErr, accepted, sol>>

----------------------------------------------------------------------------
(* Enumerations and constants of the contract *)

\* NodeStatus (iota)
Unregistered == 0
Registered == 1
Active == 2
Slashed == 3

\* ThreatLevel (iota)
Info == 0
Warning == 1
Critical == 2
Emergency == 3

\* ContractState (iota)
StateActive == 0
Paused == 1
EmergencyStopped == 2

MinStakeRoot == 10000
MinStakePartition == 5000
MinStakeEdge == 100
StakeLockPeriod == 604800
MaxConsensusNodes == 21
SlashPenaltyRate == 100

NodeKeyPrefix == "NODE_"
NodeIdToAddressKey == "NODEID_TO_ADDR_"
ConsensusNodesKey == "CONSENSUS_NODES"
PartitionNodesKey == "PARTITION_NODES"
EdgeNodesKey == "EDGE_NODES"
PendingWithdrawalKey == "PENDING_WITHDRAWAL_"
UsedNonceKey == "USED_NONCE_"
OwnerKey == "OWNER_"
GovernanceKey == "GOVERNANCE_"
ContractStateKey == "CONTRACT_STATE_"
ValidatorKey == "VALIDATOR_"
ThreatAttestationKey == "THREAT_ATTESTATION_"
GlobalThreatListKey == "GLOBAL_THREAT_LIST_"
ThreatVerificationKey == "THREAT_VERIFICATION_"

\* a nil error
Nil == "nil"

----------------------------------------------------------------------------
(* Bounds of the model *)

\* accepted stake invocations
MaxStakes == 2
\* length of the event log
MaxEvents == 3
\* bits of the word the model gives a uint64: the 64 of the source scaled down
\* so that a sum that wraps around stays within the 32-bit integers of TLC
WordBits == 29
\* length of the event log in the withdrawal-ledger scenario
MaxLedgerEvents == 4
\* length of the event log in the threat-report scenario
MaxThreatEvents == 4
\* root-tier candidates of the consensus-cap scenario (more than the cap)
RootCandidates == 22
\* how many of them the governance may slash in that scenario
Slashable == 1
\* length of the event log of the ThreatEvidence contract
SolMaxEvents == 4
\* length of the event log in the verification scenario
MaxVerifyEvents == 8

----------------------------------------------------------------------------
(* Host interface: store and event sink *)

Has(s, key) == key \in DOMAIN s

\* Get: the value and a nil error, or an error when the key is absent
Get(s, key) ==
    IF Has(s, key) THEN [val |-> s[key], err |-> Nil]
    ELSE [val |-> "", err |-> "key not found"]

Put(s, key, value) == [k \in (DOMAIN s) \cup {key} |-> IF k = key THEN value ELSE s[k]]

EmitEvent(ev, name, data) == Append(ev, <<name, data>>)

\* what a handler returns: the store and event log it leaves, and (payload, error)
Ret(s, ev, payload, err) == [store |-> s, events |-> ev, payload |-> payload, err |-> err]

\* c.Args[name] is absent or empty
Missing(c, name) == name \notin DOMAIN c.Args

\* strconv.Itoa / strconv.FormatUint / strconv.FormatInt
Itoa(n) == ToString(n)

\* strconv.Atoi on a stored contract state
Atoi(str) ==
    IF \E n \in 0..2 : Itoa(n) = str
    THEN [val |-> CHOOSE n \in 0..2 : Itoa(n) = str, err |-> Nil]
    ELSE [val |-> 0, err |-> "invalid syntax"]

\* the number of values of a uint64 (2^64 in the source)
Uint64Range == 2^WordBits

\* a * b on uint64 for a factor b of at most 128: the product modulo 2^64,
\* taken in two parts of a so that no intermediate value leaves the integers
\* of TLC
MulUint64(a, b) ==
    LET low == 2^(WordBits - 6) IN
    ((((a \div low) * b) % (Uint64Range \div low)) * low + (a % low) * b) % Uint64Range

\* strconv.ParseUint(str, 10, bits): decimal digits only, no sign, below 2^bits.
\* A numeric argument is carried as the integer its text denotes; a negative
\* one stands for a text with a sign, which ParseUint rejects.
ParseUint(v, bits) ==
    IF v >= 0 /\ v < (IF bits = 64 THEN Uint64Range ELSE 2^bits)
    THEN [val |-> v, err |-> Nil]
    ELSE [val |-> 0, err |-> "invalid syntax"]

\* the value of one decimal digit, -1 for any other character
DigitValue(ch) ==
    CASE ch = "0" -> 0 [] ch = "1" -> 1 [] ch = "2" -> 2 [] ch = "3" -> 3
      [] ch = "4" -> 4 [] ch = "5" -> 5 [] ch = "6" -> 6 [] ch = "7" -> 7
      [] ch = "8" -> 8 [] ch = "9" -> 9 [] OTHER -> -1

\* the number a text of decimal digits denotes
RECURSIVE ParseDecimal(_)
ParseDecimal(str) ==
    IF Len(str) = 0 THEN 0
    ELSE ParseDecimal(SubSeq(str, 1, Len(str) - 1)) * 10
             + DigitValue(SubSeq(str, Len(str), Len(str)))

\* the least and the greatest int64 (-2^63 and 2^63 - 1 in the source)
Int64Min == -(Uint64Range \div 2)
Int64Max == (Uint64Range \div 2) - 1

\* strconv.ParseInt(str, 10, 64): an optional sign and decimal digits, within
\* the int64 range
ParseInt(v) ==
    IF v >= Int64Min /\ v <= Int64Max
    THEN [val |-> v, err |-> Nil]
    ELSE [val |-> 0, err |-> "value out of range"]

\* a + b on int64: the sum in two's complement, wrapping around
AddInt64(a, b) ==
    IF a + b > Int64Max THEN a + b - Uint64Range
    ELSE IF a + b < Int64Min THEN a + b + Uint64Range
    ELSE a + b

----------------------------------------------------------------------------
(* Helper methods of the contract (part_000) *)

\* a getMinStakeForNodeType that asks for nothing
getMinStakeForNodeTypeNone(nodeType) == 0

getMinStakeForNodeType(nodeType) ==
    CASE nodeType = 0 -> MinStakeRoot
      [] nodeType = 1 -> MinStakePartition
      [] OTHER -> MinStakeEdge

\* saveNode: the node record under NODE_<address>, then the id mapping
saveNode(s, node) ==
    Put(Put(s, NodeKeyPrefix \o node.NodeAddress, node),
        NodeIdToAddressKey \o node.NodeId, node.NodeAddress)

getNodeByAddress(s, nodeAddr) ==
    LET r == Get(s, NodeKeyPrefix \o nodeAddr) IN
    IF r.err # Nil
    THEN [val |-> "", err |-> "node not found for address " \o nodeAddr \o ": " \o r.err]
    ELSE [val |-> r.val, err |-> Nil]

\* variant: an id lookup that never finds a mapping
getNodeAddressByIdMiss(s, nodeId) == [val |-> "", err |-> "node id not found: key not found"]

getNodeAddressById(s, nodeId) ==
    LET r == Get(s, NodeIdToAddressKey \o nodeId) IN
    IF r.err # Nil
    THEN [val |-> "", err |-> "node id not found: " \o r.err]
    ELSE [val |-> r.val, err |-> Nil]

\* fmt.Sprintf("%s_%s_%d_%d_%d", caller, nodeId, amount, c.TxTimeStamp, nonce),
\* used as the request hash as it stands
RequestKey(caller, nodeId, amount, ts, nonce) ==
    caller \o "_" \o nodeId \o "_" \o Itoa(amount) \o "_" \o Itoa(ts) \o "_" \o Itoa(nonce)

\* variant: a replay guard that never finds a nonce
isNonceUsedNever(s, nonceHash) == FALSE

isNonceUsed(s, nonceHash) == Get(s, UsedNonceKey \o nonceHash).err = Nil

setNonceUsed(s, nonceHash) == Put(s, UsedNonceKey \o nonceHash, "used")

getContractState(s) ==
    LET r == Get(s, ContractStateKey) IN
    IF r.err # Nil
    THEN [val |-> 0, err |-> "failed to get contract state: " \o r.err]
    ELSE LET a == Atoi(r.val) IN
         IF a.err # Nil
         THEN [val |-> 0, err |-> "invalid contract state: " \o a.err]
         ELSE [val |-> a.val, err |-> Nil]

onlyOwner(s, c) ==
    LET r == Get(s, OwnerKey) IN
    IF r.err # Nil THEN "failed to get owner address: " \o r.err
    ELSE IF c.Caller # r.val
    THEN "only owner can call this function, caller: " \o c.Caller \o ", owner: " \o r.val
    ELSE Nil

\* variant: a governance check that lets every caller through
onlyGovernanceAnyone(s, c) == Nil

onlyGovernance(s, c) ==
    LET r == Get(s, GovernanceKey) IN
    IF r.err # Nil THEN "failed to get governance address: " \o r.err
    ELSE IF c.Caller # r.val
    THEN "only governance can call this function, caller: " \o c.Caller
             \o ", governance: " \o r.val
    ELSE Nil

onlyValidator(s, c) ==
    LET r == Get(s, ValidatorKey \o c.Caller) IN
    IF r.err # Nil \/ r.val # "1"
    THEN "only authorized validators can call this function, caller: " \o c.Caller
    ELSE Nil

\* the position-preserving membership test of the list loops
InList(list, addr) == \E i \in 1..Len(list) : list[i] = addr

\* variant: a consensus list without the size check
addNodeToConsensusListNoCap(s, nodeAddr) ==
    LET r == Get(s, ConsensusNodesKey) IN
    IF r.err # Nil
    THEN [store |-> s, err |-> "failed to get consensus nodes: " \o r.err]
    ELSE IF InList(r.val, nodeAddr)
    THEN [store |-> s, err |-> "node already in consensus list: " \o nodeAddr]
    ELSE [store |-> Put(s, ConsensusNodesKey, Append(r.val, nodeAddr)), err |-> Nil]

\* the three add-to-list helpers return the store they leave and an error
addNodeToConsensusList(s, nodeAddr) ==
    LET r == Get(s, ConsensusNodesKey) IN
    IF r.err # Nil
    THEN [store |-> s, err |-> "failed to get consensus nodes: " \o r.err]
    ELSE IF Len(r.val) >= MaxConsensusNodes
    THEN [store |-> s, err |-> "max consensus nodes reached: " \o Itoa(MaxConsensusNodes)]
    ELSE IF InList(r.val, nodeAddr)
    THEN [store |-> s, err |-> "node already in consensus list: " \o nodeAddr]
    ELSE [store |-> Put(s, ConsensusNodesKey, Append(r.val, nodeAddr)), err |-> Nil]

addNodeToPartitionList(s, nodeAddr) ==
    LET r == Get(s, PartitionNodesKey) IN
    IF r.err # Nil
    THEN [store |-> s, err |-> "failed to get partition nodes: " \o r.err]
    ELSE IF InList(r.val, nodeAddr)
    THEN [store |-> s, err |-> "node already in partition list: " \o nodeAddr]
    ELSE [store |-> Put(s, PartitionNodesKey, Append(r.val, nodeAddr)), err |-> Nil]

\* variant: edge-tier nodes filed in the partition list
addNodeToEdgeListAsPartition(s, nodeAddr) == addNodeToPartitionList(s, nodeAddr)

addNodeToEdgeList(s, nodeAddr) ==
    LET r == Get(s, EdgeNodesKey) IN
    IF r.err # Nil
    THEN [store |-> s, err |-> "failed to get edge nodes: " \o r.err]
    ELSE IF InList(r.val, nodeAddr)
    THEN [store |-> s, err |-> "node already in edge list: " \o nodeAddr]
    ELSE [store |-> Put(s, EdgeNodesKey, Append(r.val, nodeAddr)), err |-> Nil]

removeNodeFromConsensusList(s, nodeAddr) ==
    LET r == Get(s, ConsensusNodesKey) IN
    IF r.err # Nil
    THEN [store |-> s, err |-> "failed to get consensus nodes: " \o r.err]
    ELSE [store |-> Put(s, ConsensusNodesKey,
                        SelectSeq(r.val, LAMBDA addr : addr # nodeAddr)),
          err |-> Nil]

validateBusinessLicense(licenseHash) == Len(licenseHash) >= 10

validateFilingNumber(filingHash) == Len(filingHash) >= 10

\* applyReputationRules: below 80 a consensus node loses the flag (the list
\* is left as it is); above 120 nothing happens
applyReputationRules(node) ==
    IF node.ReputationScore < 80 /\ node.IsConsensusNode
    THEN [node EXCEPT !.IsConsensusNode = FALSE]
    ELSE node

----------------------------------------------------------------------------
(* Handlers of part_000 *)

\* stakeWithGmSign: the signature check is the constant "valid := true"
stakeWithGmSign(s, ev, c) ==
    LET state == getContractState(s) IN
    IF state.err # Nil THEN Ret(s, ev, "", state.err)
    ELSE IF state.val # StateActive
    THEN Ret(s, ev, "", "contract is not active, current state: " \o Itoa(state.val))
    ELSE IF Missing(c, "node_id") THEN Ret(s, ev, "", "node_id is required")
    ELSE IF Missing(c, "amount") THEN Ret(s, ev, "", "amount is required")
    ELSE IF Missing(c, "sm2_signature") THEN Ret(s, ev, "", "sm2_signature is required")
    ELSE IF Missing(c, "data_hash") THEN Ret(s, ev, "", "data_hash is required")
    ELSE IF Missing(c, "nonce") THEN Ret(s, ev, "", "nonce is required")
    ELSE IF Missing(c, "business_license_hash")
    THEN Ret(s, ev, "", "business_license_hash is required")
    ELSE IF Missing(c, "filing_number_hash")
    THEN Ret(s, ev, "", "filing_number_hash is required")
    ELSE IF Missing(c, "node_type") THEN Ret(s, ev, "", "node_type is required")
    ELSE
    LET nodeId == c.Args.node_id
        businessLicenseHash == c.Args.business_license_hash
        filingNumberHash == c.Args.filing_number_hash
        amount == ParseUint(c.Args.amount, 64)
        nonce == ParseUint(c.Args.nonce, 64)
        nodeType == ParseUint(c.Args.node_type, 8)
    IN
    IF amount.err # Nil THEN Ret(s, ev, "", "invalid amount: " \o amount.err)
    ELSE IF nonce.err # Nil THEN Ret(s, ev, "", "invalid nonce: " \o nonce.err)
    ELSE IF nodeType.err # Nil THEN Ret(s, ev, "", "invalid node type: " \o nodeType.err)
    ELSE
    LET caller == c.Caller
        requestKey == RequestKey(caller, nodeId, amount.val, c.TxTimeStamp, nonce.val)
    IN
    IF isNonceUsed(s, requestKey) THEN Ret(s, ev, "", "nonce already used")
    ELSE
    LET s1 == setNonceUsed(s, requestKey)
        minStake == getMinStakeForNodeType(nodeType.val)
        existing == getNodeAddressById(s1, nodeId)
    IN
    IF amount.val < minStake
    THEN Ret(s1, ev, "", "insufficient stake amount, required: " \o Itoa(minStake)
                            \o ", provided: " \o Itoa(amount.val))
    ELSE IF existing.err = Nil /\ existing.val # ""
    THEN Ret(s1, ev, "", "node ID already exists: " \o nodeId)
    ELSE IF ~validateBusinessLicense(businessLicenseHash)
    THEN Ret(s1, ev, "", "invalid business license format")
    ELSE IF ~validateFilingNumber(filingNumberHash)
    THEN Ret(s1, ev, "", "invalid filing number format")
    ELSE
    LET node == [NodeAddress |-> caller,
                 StakeAmount |-> amount.val,
                 StakeStart |-> c.TxTimeStamp,
                 ReputationScore |-> 100,
                 Status |-> Registered,
                 NodeId |-> nodeId,
                 BusinessLicense |-> businessLicenseHash,
                 FilingNumber |-> filingNumberHash,
                 ChallengeCount |-> 0,
                 LastSeen |-> c.TxTimeStamp,
                 IsConsensusNode |-> FALSE,
                 LastThreatReport |-> 0,
                 VerifiedThreats |-> 0]
        s2 == saveNode(s1, node)
        eventData == <<nodeId, caller, Itoa(amount.val)>>
        done(s4) == Ret(s4, EmitEvent(ev, "NodeStaked", eventData),
                        "Node staked successfully", Nil)
    IN
    CASE nodeType.val = 0 ->
            LET a == addNodeToConsensusList(s2, caller) IN
            IF a.err # Nil
            THEN Ret(a.store, ev, "", "failed to add to consensus list: " \o a.err)
            ELSE done(saveNode(a.store, [node EXCEPT !.IsConsensusNode = TRUE]))
      [] nodeType.val = 1 ->
            LET a == addNodeToPartitionList(s2, caller) IN
            IF a.err # Nil
            THEN Ret(a.store, ev, "", "failed to add to partition list: " \o a.err)
            ELSE done(a.store)
      [] OTHER ->
            LET a == addNodeToEdgeList(s2, caller) IN
            IF a.err # Nil
            THEN Ret(a.store, ev, "", "failed to add to edge list: " \o a.err)
            ELSE done(a.store)

\* the zero value of Node
ZeroNode ==
    [NodeAddress |-> "", StakeAmount |-> 0, StakeStart |-> 0, ReputationScore |-> 0,
     Status |-> Unregistered, NodeId |-> "", BusinessLicense |-> "", FilingNumber |-> "",
     ChallengeCount |-> 0, LastSeen |-> 0, IsConsensusNode |-> FALSE,
     LastThreatReport |-> 0, VerifiedThreats |-> 0]

\* getNodeInfo: a lookup failure is reported in the payload, not as an error
\* getNodeInfo stamping the node it has read as seen
getNodeInfoTouching(s, ev, c) ==
    IF Missing(c, "node_address") THEN Ret(s, ev, "", "node address is required")
    ELSE
    LET got == getNodeByAddress(s, c.Args.node_address) IN
    IF got.err # Nil
    THEN Ret(s, ev, [node |-> ZeroNode, success |-> FALSE, error |-> got.err], Nil)
    ELSE Ret(saveNode(s, [got.val EXCEPT !.LastSeen = c.TxTimeStamp]), ev,
             [node |-> got.val, success |-> TRUE, error |-> ""], Nil)

getNodeInfo(s, ev, c) ==
    IF Missing(c, "node_address") THEN Ret(s, ev, "", "node address is required")
    ELSE
    LET got == getNodeByAddress(s, c.Args.node_address) IN
    IF got.err # Nil
    THEN Ret(s, ev, [node |-> ZeroNode, success |-> FALSE, error |-> got.err], Nil)
    ELSE Ret(s, ev, [node |-> got.val, success |-> TRUE, error |-> ""], Nil)

\* loops that count every listed node, whatever its status
RECURSIVE ActiveTotalsAnyStatus(_, _)
ActiveTotalsAnyStatus(s, list) ==
    IF list = << >> THEN [staked |-> 0, active |-> 0]
    ELSE LET rest == ActiveTotalsAnyStatus(s, Tail(list))
             node == getNodeByAddress(s, Head(list))
         IN IF node.err = Nil
            THEN [staked |-> rest.staked + node.val.StakeAmount, active |-> rest.active + 1]
            ELSE rest

\* the loops of getContractStats: stake and count of the Active nodes of a list
RECURSIVE ActiveTotals(_, _)
ActiveTotals(s, list) ==
    IF list = << >> THEN [staked |-> 0, active |-> 0]
    ELSE LET rest == ActiveTotals(s, Tail(list))
             node == getNodeByAddress(s, Head(list))
         IN IF node.err = Nil /\ node.val.Status = Active
            THEN [staked |-> rest.staked + node.val.StakeAmount, active |-> rest.active + 1]
            ELSE rest

getContractStats(s, ev, c) ==
    LET consensusNodes == Get(s, ConsensusNodesKey)
        partitionNodes == Get(s, PartitionNodesKey)
        edgeNodes == Get(s, EdgeNodesKey)
    IN
    IF consensusNodes.err # Nil
    THEN Ret(s, ev, "", "failed to get consensus nodes: " \o consensusNodes.err)
    ELSE IF partitionNodes.err # Nil
    THEN Ret(s, ev, "", "failed to get partition nodes: " \o partitionNodes.err)
    ELSE IF edgeNodes.err # Nil
    THEN Ret(s, ev, "", "failed to get edge nodes: " \o edgeNodes.err)
    ELSE
    LET totals == ActiveTotals(s, consensusNodes.val \o partitionNodes.val \o edgeNodes.val)
    IN Ret(s, ev, [TotalStaked |-> totals.staked,
                   ActiveNodes |-> totals.active,
                   TotalConsensusNodes |-> Len(consensusNodes.val),
                   TotalPartitionNodes |-> Len(partitionNodes.val),
                   TotalEdgeNodes |-> Len(edgeNodes.val)], Nil)

submitChallenge(s, ev, c) ==
    IF Missing(c, "cache_key") THEN Ret(s, ev, "", "cache_key is required")
    ELSE IF Missing(c, "reason") THEN Ret(s, ev, "", "reason is required")
    ELSE
    LET challenger == c.Caller
        node == getNodeByAddress(s, challenger)
        challengeId == "challenge_" \o c.Args.cache_key \o "_" \o Itoa(c.TxTimeStamp)
    IN
    IF node.err # Nil \/ node.val.Status # Active
    THEN Ret(s, ev, "", "challenger is not an active node")
    ELSE Ret(s, EmitEvent(ev, "NodeChallenged",
                          <<challengeId, c.Args.cache_key, challenger, c.Args.reason,
                            Itoa(c.TxTimeStamp)>>),
             "Challenge submitted successfully", Nil)

\* variant: a clamp that has lost its upper limit
ClampReputationAtZero(newReputation) == IF newReputation < 0 THEN 0 ELSE newReputation

\* the clamp of updateReputation
ClampReputation(newReputation) ==
    IF newReputation < 0 THEN 0
    ELSE IF newReputation > 1000 THEN 1000
    ELSE newReputation

updateReputation(s, ev, c) ==
    LET v == onlyValidator(s, c) IN
    IF v # Nil THEN Ret(s, ev, "", v)
    ELSE IF Missing(c, "node_address") THEN Ret(s, ev, "", "node_address is required")
    ELSE IF Missing(c, "reputation_delta")
    THEN Ret(s, ev, "", "reputation_delta is required")
    ELSE
    LET nodeAddr == c.Args.node_address
        reputationDelta == ParseInt(c.Args.reputation_delta)
        got == getNodeByAddress(s, nodeAddr)
    IN
    IF reputationDelta.err # Nil
    THEN Ret(s, ev, "", "invalid reputation_delta: " \o reputationDelta.err)
    ELSE IF got.err # Nil THEN Ret(s, ev, "", "node not found: " \o got.err)
    ELSE
    LET newReputation == ClampReputation(AddInt64(got.val.ReputationScore, reputationDelta.val))
        node == applyReputationRules([got.val EXCEPT !.ReputationScore = newReputation])
    IN
    Ret(saveNode(s, node),
        EmitEvent(ev, "ReputationUpdated",
                  <<nodeAddr, Itoa(reputationDelta.val), Itoa(node.ReputationScore),
                    Itoa(c.TxTimeStamp)>>),
        "Reputation updated successfully", Nil)

slashNode(s, ev, c) ==
    LET g == onlyGovernance(s, c) IN
    IF g # Nil THEN Ret(s, ev, "", g)
    ELSE IF Missing(c, "node_address") THEN Ret(s, ev, "", "node_address is required")
    ELSE IF Missing(c, "reason") THEN Ret(s, ev, "", "reason is required")
    ELSE
    LET nodeAddr == c.Args.node_address
        got == getNodeByAddress(s, nodeAddr)
    IN
    IF got.err # Nil THEN Ret(s, ev, "", "node not found: " \o got.err)
    ELSE
    LET penaltyAmount == MulUint64(got.val.StakeAmount, SlashPenaltyRate) \div 100
        newStakeAmount == (got.val.StakeAmount - penaltyAmount) % Uint64Range
        node == [got.val EXCEPT !.StakeAmount = newStakeAmount, !.Status = Slashed]
        s1 == saveNode(s, node)
        s2 == IF node.IsConsensusNode
              THEN saveNode(removeNodeFromConsensusList(s1, nodeAddr).store,
                            [node EXCEPT !.IsConsensusNode = FALSE])
              ELSE s1
    IN
    Ret(s2,
        EmitEvent(ev, "NodeSlashed",
                  <<nodeAddr, Itoa(penaltyAmount), c.Args.reason, Itoa(c.TxTimeStamp)>>),
        "Node slashed successfully", Nil)

\* the pending amount read back from its decimal text; the source ignores the
\* parse error and then continues from zero
ParsePending(str) ==
    IF Len(str) > 0 /\ \A i \in 1..Len(str) : DigitValue(SubSeq(str, i, i)) >= 0
    THEN ParseDecimal(str)
    ELSE 0

\* a requestWithdrawal without the lock-period check
requestWithdrawalNoLock(s, ev, c) ==
    IF Missing(c, "amount") THEN Ret(s, ev, "", "amount is required")
    ELSE
    LET amount == ParseUint(c.Args.amount, 64)
        requester == c.Caller
        got == getNodeByAddress(s, requester)
    IN
    IF amount.err # Nil THEN Ret(s, ev, "", "invalid amount: " \o amount.err)
    ELSE IF got.err # Nil THEN Ret(s, ev, "", "node not found: " \o got.err)
    ELSE IF got.val.Status = Slashed THEN Ret(s, ev, "", "slashed nodes cannot withdraw")
    ELSE IF got.val.StakeAmount < amount.val
    THEN Ret(s, ev, "", "insufficient stake amount, available: "
                           \o Itoa(got.val.StakeAmount) \o ", requested: "
                           \o Itoa(amount.val))
    ELSE
    LET s1 == saveNode(s, [got.val EXCEPT !.StakeAmount = @ - amount.val])
        pendingKey == PendingWithdrawalKey \o requester
        currentPending == IF Has(s1, pendingKey) THEN ParsePending(s1[pendingKey]) ELSE 0
        newPending == (currentPending + amount.val) % Uint64Range
    IN
    Ret(Put(s1, pendingKey, Itoa(newPending)),
        EmitEvent(ev, "WithdrawalRequested",
                  <<requester, Itoa(amount.val), Itoa(c.TxTimeStamp)>>),
        "Withdrawal requested successfully", Nil)

requestWithdrawal(s, ev, c) ==
    IF Missing(c, "amount") THEN Ret(s, ev, "", "amount is required")
    ELSE
    LET amount == ParseUint(c.Args.amount, 64)
        requester == c.Caller
        got == getNodeByAddress(s, requester)
    IN
    IF amount.err # Nil THEN Ret(s, ev, "", "invalid amount: " \o amount.err)
    ELSE IF got.err # Nil THEN Ret(s, ev, "", "node not found: " \o got.err)
    ELSE IF got.val.Status = Slashed THEN Ret(s, ev, "", "slashed nodes cannot withdraw")
    ELSE IF c.TxTimeStamp < got.val.StakeStart + StakeLockPeriod
    THEN Ret(s, ev, "", "lock period not ended")
    ELSE IF got.val.StakeAmount < amount.val
    THEN Ret(s, ev, "", "insufficient stake amount, available: "
                           \o Itoa(got.val.StakeAmount) \o ", requested: "
                           \o Itoa(amount.val))
    ELSE
    LET s1 == saveNode(s, [got.val EXCEPT !.StakeAmount = @ - amount.val])
        pendingKey == PendingWithdrawalKey \o requester
        currentPending == IF Has(s1, pendingKey) THEN ParsePending(s1[pendingKey]) ELSE 0
        newPending == (currentPending + amount.val) % Uint64Range
    IN
    Ret(Put(s1, pendingKey, Itoa(newPending)),
        EmitEvent(ev, "WithdrawalRequested",
                  <<requester, Itoa(amount.val), Itoa(c.TxTimeStamp)>>),
        "Withdrawal requested successfully", Nil)

addValidator(s, ev, c) ==
    LET o == onlyOwner(s, c) IN
    IF o # Nil THEN Ret(s, ev, "", o)
    ELSE IF Missing(c, "validator_address")
    THEN Ret(s, ev, "", "validator_address is required")
    ELSE
    LET validatorAddr == c.Args.validator_address IN
    IF Len(validatorAddr) < 10 THEN Ret(s, ev, "", "invalid validator address format")
    ELSE Ret(Put(s, ValidatorKey \o validatorAddr, "1"),
             EmitEvent(ev, "ValidatorAdded", <<validatorAddr, Itoa(c.TxTimeStamp)>>),
             "Validator added successfully", Nil)

\* pauseContract emitting its event before the governance check
pauseContractEmitsFirst(s, ev, c) ==
    LET g == onlyGovernance(s, c)
        emitted == EmitEvent(ev, "ContractPaused", <<Itoa(c.TxTimeStamp)>>)
    IN
    IF g # Nil THEN Ret(s, emitted, "", g)
    ELSE Ret(Put(s, ContractStateKey, Itoa(Paused)), emitted,
             "Contract paused successfully", Nil)

pauseContract(s, ev, c) ==
    LET g == onlyGovernance(s, c) IN
    IF g # Nil THEN Ret(s, ev, "", g)
    ELSE Ret(Put(s, ContractStateKey, Itoa(Paused)),
             EmitEvent(ev, "ContractPaused", <<Itoa(c.TxTimeStamp)>>),
             "Contract paused successfully", Nil)

\* variant: a resumeContract behind the gate of the other handlers
resumeContractGated(s, ev, c) ==
    LET state == getContractState(s)
        g == onlyGovernance(s, c)
    IN
    IF state.err # Nil THEN Ret(s, ev, "", state.err)
    ELSE IF state.val # StateActive
    THEN Ret(s, ev, "", "contract is not active, current state: " \o Itoa(state.val))
    ELSE IF g # Nil THEN Ret(s, ev, "", g)
    ELSE Ret(Put(s, ContractStateKey, Itoa(StateActive)),
             EmitEvent(ev, "ContractResumed", <<Itoa(c.TxTimeStamp)>>),
             "Contract resumed successfully", Nil)

resumeContract(s, ev, c) ==
    LET g == onlyGovernance(s, c) IN
    IF g # Nil THEN Ret(s, ev, "", g)
    ELSE Ret(Put(s, ContractStateKey, Itoa(StateActive)),
             EmitEvent(ev, "ContractResumed", <<Itoa(c.TxTimeStamp)>>),
             "Contract resumed successfully", Nil)

\* variant: an InitContract that prefers governance_address to _arg0
InitContractAddressFirst(s, c) ==
    LET governanceAddr ==
            IF ~Missing(c, "governance_address") THEN c.Args.governance_address
            ELSE IF ~Missing(c, "_arg0") THEN c.Args["_arg0"]
            ELSE c.Caller
        s1 == Put(s, ContractStateKey, Itoa(StateActive))
        s2 == Put(s1, OwnerKey, c.Caller)
        s3 == Put(s2, GovernanceKey, governanceAddr)
        s4 == Put(s3, ConsensusNodesKey, << >>)
        s5 == Put(s4, PartitionNodesKey, << >>)
    IN Put(s5, EdgeNodesKey, << >>)

\* InitContract: contract state, owner (the caller), governance (_arg0, else
\* governance_address, else the caller) and the three empty lists
InitContract(s, c) ==
    LET governanceAddr ==
            IF ~Missing(c, "_arg0") THEN c.Args["_arg0"]
            ELSE IF ~Missing(c, "governance_address") THEN c.Args.governance_address
            ELSE c.Caller
        s1 == Put(s, ContractStateKey, Itoa(StateActive))
        s2 == Put(s1, OwnerKey, c.Caller)
        s3 == Put(s2, GovernanceKey, governanceAddr)
        s4 == Put(s3, ConsensusNodesKey, << >>)
        s5 == Put(s4, PartitionNodesKey, << >>)
    IN Put(s5, EdgeNodesKey, << >>)

----------------------------------------------------------------------------
(* Handlers of part_001: threat reports *)

onlyActiveNode(s, c) ==
    LET got == getNodeByAddress(s, c.Caller) IN
    IF got.err # Nil THEN "node not found: " \o got.err
    ELSE IF got.val.Status # Active
    THEN "only active nodes can call this function, current status: "
             \o Itoa(got.val.Status)
    ELSE Nil

\* strings.Split(ip, ".") on the addresses the model submits
SplitDot(ip) ==
    CASE ip = "1.2.3.4" -> <<"1", "2", "3", "4">>
      [] ip = "5.6.7.8" -> <<"5", "6", "7", "8">>
      [] ip = "10.0.0." -> <<"10", "0", "0", "">>
      [] ip = "10.0.0.x" -> <<"10", "0", "0", "x">>
      [] OTHER -> <<ip>>

\* strconv.Atoi succeeds on the part
IsDecimal(part) == \E n \in 0..255 : Itoa(n) = part

isValidIP(ip) ==
    \A i \in 1..Len(SplitDot(ip)) :
        LET part == SplitDot(ip)[i] IN part = "" \/ IsDecimal(part)

\* an isThreatReportDuplicate that never finds the marker
isThreatReportDuplicateNever(s, key) == FALSE

isThreatReportDuplicate(s, key) == Get(s, key).err = Nil

\* validateThreatReport returns the store it leaves and an error
validateThreatReport(s, attestation) ==
    IF ~isValidIP(attestation.SourceIP)
    THEN [store |-> s, err |-> "invalid source IP format: " \o attestation.SourceIP]
    ELSE IF ~isValidIP(attestation.TargetIP)
    THEN [store |-> s, err |-> "invalid target IP format: " \o attestation.TargetIP]
    ELSE
    LET existingKey == "THREAT_DUPLICATE_" \o attestation.SourceIP \o "_"
                          \o attestation.ThreatType \o "_"
                          \o Itoa(attestation.Timestamp \div 300)
    IN
    IF isThreatReportDuplicate(s, existingKey)
    THEN [store |-> s, err |-> "duplicate threat report detected"]
    ELSE [store |-> Put(s, existingKey, "1"), err |-> Nil]

\* addToGlobalThreatList: a missing list reads as "[]"; the error of the
\* final Put is returned to the caller
addToGlobalThreatList(s, c, ip, level) ==
    LET threatList == IF Has(s, GlobalThreatListKey) THEN s[GlobalThreatListKey] ELSE << >>
        ipExists == \E i \in 1..Len(threatList) : threatList[i].ip = ip
        first == CHOOSE i \in 1..Len(threatList) :
                    /\ threatList[i].ip = ip
                    /\ \A j \in 1..(i - 1) : threatList[j].ip # ip
        updated ==
            IF ipExists
            THEN IF level > threatList[first].level
                 THEN [threatList EXCEPT ![first] =
                          [f \in (DOMAIN @) \cup {"last_updated"} |->
                              CASE f = "level" -> level
                                [] f = "last_updated" -> c.TxTimeStamp
                                [] OTHER -> @[f]]]
                 ELSE threatList
            ELSE Append(threatList, [ip |-> ip, level |-> level,
                                     first_seen |-> c.TxTimeStamp,
                                     last_seen |-> c.TxTimeStamp,
                                     report_count |-> 1])
    IN
    IF GlobalThreatListKey \in c.PutFails
    THEN [store |-> s, err |-> "failed to save updated threat list: put failed"]
    ELSE [store |-> Put(s, GlobalThreatListKey, updated), err |-> Nil]

ParseThreatLevel(str) ==
    CASE str = "Info" -> [val |-> Info, err |-> Nil]
      [] str = "Warning" -> [val |-> Warning, err |-> Nil]
      [] str = "Critical" -> [val |-> Critical, err |-> Nil]
      [] str = "Emergency" -> [val |-> Emergency, err |-> Nil]
      [] OTHER -> [val |-> 0, err |-> "invalid threat_level: " \o str]

OptionalArg(c, name) == IF Missing(c, name) THEN "" ELSE c.Args[name]

submitThreatReport(s, ev, c) ==
    LET a == onlyActiveNode(s, c) IN
    IF a # Nil THEN Ret(s, ev, "", "only active nodes can submit threat reports: " \o a)
    ELSE IF Missing(c, "threat_type") THEN Ret(s, ev, "", "threat_type is required")
    ELSE IF Missing(c, "source_ip") THEN Ret(s, ev, "", "source_ip is required")
    ELSE IF Missing(c, "target_ip") THEN Ret(s, ev, "", "target_ip is required")
    ELSE IF Missing(c, "threat_level") THEN Ret(s, ev, "", "threat_level is required")
    ELSE
    LET threatLevel == ParseThreatLevel(c.Args.threat_level) IN
    IF threatLevel.err # Nil THEN Ret(s, ev, "", threatLevel.err)
    ELSE IF Missing(c, "context") THEN Ret(s, ev, "", "context is required")
    ELSE
    LET sourceIP == c.Args.source_ip
        reportID == "threat_" \o sourceIP \o "_" \o Itoa(c.TxTimeStamp)
        attestation == [ID |-> reportID,
                        Timestamp |-> c.TxTimeStamp,
                        SourceIP |-> sourceIP,
                        TargetIP |-> c.Args.target_ip,
                        ThreatType |-> c.Args.threat_type,
                        ThreatLevel |-> threatLevel.val,
                        Context |-> c.Args.context,
                        AgentID |-> c.Caller,
                        EvidenceHash |-> OptionalArg(c, "evidence_hash"),
                        Geolocation |-> OptionalArg(c, "geolocation"),
                        NetworkFlow |-> OptionalArg(c, "network_flow")]
        v == validateThreatReport(s, attestation)
    IN
    IF v.err # Nil THEN Ret(v.store, ev, "", "threat report validation failed: " \o v.err)
    ELSE
    LET s1 == Put(v.store, ThreatAttestationKey \o reportID, attestation)
        got == getNodeByAddress(s1, c.Caller)
    IN
    IF got.err # Nil THEN Ret(s1, ev, "", "failed to get node: " \o got.err)
    ELSE
    LET s2 == saveNode(s1, [got.val EXCEPT !.LastThreatReport = c.TxTimeStamp,
                                           !.ChallengeCount = @ + 1])
        s3 == IF threatLevel.val >= Critical
              THEN addToGlobalThreatList(s2, c, sourceIP, threatLevel.val).store
              ELSE s2
    IN
    Ret(s3,
        EmitEvent(ev, "ThreatReported",
                  <<reportID, sourceIP, c.Args.target_ip, c.Args.threat_type,
                    Itoa(c.TxTimeStamp)>>),
        reportID, Nil)

\* verifyThreatReport: the stamp is written, never read; the reporter's node
\* is credited on every call
verifyThreatReport(s, ev, c) ==
    LET v == onlyValidator(s, c) IN
    IF v # Nil THEN Ret(s, ev, "", "only validators can verify threat reports: " \o v)
    ELSE IF Missing(c, "report_id") THEN Ret(s, ev, "", "report_id is required")
    ELSE
    LET reportID == c.Args.report_id
        got == Get(s, ThreatAttestationKey \o reportID)
    IN
    IF got.err # Nil THEN Ret(s, ev, "", "threat report not found: " \o reportID)
    ELSE
    LET s1 == Put(s, ThreatVerificationKey \o reportID \o "_" \o c.Caller,
                  [verifier |-> c.Caller, verified |-> TRUE,
                   timestamp |-> c.TxTimeStamp, report_id |-> reportID])
        node == getNodeByAddress(s1, got.val.AgentID)
        s2 == IF node.err # Nil THEN s1
              ELSE saveNode(s1, [node.val EXCEPT !.ReputationScore = @ + 5,
                                                 !.VerifiedThreats = @ + 1])
    IN
    Ret(s2,
        EmitEvent(ev, "ThreatVerified",
                  <<reportID, c.Caller, "true", Itoa(c.TxTimeStamp)>>),
        "Threat verification recorded", Nil)

\* getGlobalThreatList: an absent list reads as the empty list
getGlobalThreatList(s, ev, c) ==
    LET got == Get(s, GlobalThreatListKey) IN
    IF got.err # Nil THEN Ret(s, ev, << >>, Nil) ELSE Ret(s, ev, got.val, Nil)

getThreatReport(s, ev, c) ==
    IF Missing(c, "report_id") THEN Ret(s, ev, "", "report_id is required")
    ELSE
    LET got == Get(s, ThreatAttestationKey \o c.Args.report_id) IN
    IF got.err # Nil
    THEN Ret(s, ev, "", "threat report not found: " \o c.Args.report_id)
    ELSE Ret(s, ev, got.val, Nil)

----------------------------------------------------------------------------
(* Dispatcher *)

\* variant: a dispatcher that reports every call as ok
ReturnedAlwaysOk(r) ==
    [store |-> r.store, events |-> r.events, payload |-> r.payload, err |-> r.err,
     ok |-> TRUE]

\* "return err == nil, result, err": what the handler returned, with the ok flag
Returned(r) ==
    [store |-> r.store, events |-> r.events, payload |-> r.payload, err |-> r.err,
     ok |-> r.err = Nil]

\* "return false, nil, err": the dispatcher's own errors
Refused(s, ev, err) ==
    [store |-> s, events |-> ev, payload |-> "", err |-> err, ok |-> FALSE]

InvokeContract(s, ev, c) ==
    IF Missing(c, "method") THEN Refused(s, ev, "method is required")
    ELSE
    LET method == c.Args.method IN
    CASE method = "stakeWithGmSign" -> Returned(stakeWithGmSign(s, ev, c))
      [] method = "getNodeInfo" -> Returned(getNodeInfo(s, ev, c))
      [] method = "getContractStats" -> Returned(getContractStats(s, ev, c))
      [] method = "submitChallenge" -> Returned(submitChallenge(s, ev, c))
      [] method = "updateReputation" -> Returned(updateReputation(s, ev, c))
      [] method = "slashNode" -> Returned(slashNode(s, ev, c))
      [] method = "requestWithdrawal" -> Returned(requestWithdrawal(s, ev, c))
      [] method = "addValidator" -> Returned(addValidator(s, ev, c))
      [] method = "pauseContract" -> Returned(pauseContract(s, ev, c))
      [] method = "resumeContract" -> Returned(resumeContract(s, ev, c))
      [] method = "submitThreatReport" -> Returned(submitThreatReport(s, ev, c))
      [] method = "verifyThreatReport" -> Returned(verifyThreatReport(s, ev, c))
      [] method = "getThreatReport" -> Returned(getThreatReport(s, ev, c))
      [] method = "getGlobalThreatList" -> Returned(getGlobalThreatList(s, ev, c))
      [] OTHER -> Refused(s, ev, "unknown method: " \o method)

----------------------------------------------------------------------------
(* The host: principals, invocation contexts, and one step per invocation *)

OwnerAddr == "owner_addr"
GovAddr == "governance"
Alice == "alice_addr"
Bob == "bob_address"

Callers == {OwnerAddr, GovAddr, Alice, Bob}
\* the principals that run a node
NodeCallers == {Alice, Bob}

\* host timestamps the model draws from: before and after the lock period
Times == {1000, 1000 + StakeLockPeriod}

\* an invocation: the fields of Contract, and the keys on which the host's Put
\* returns an error while it runs (none, unless a scenario says otherwise)
Ctx(caller, ts, args) ==
    [Caller |-> caller, TxTimeStamp |-> ts, Args |-> args, PutFails |-> {}]

\* the invocation c run while the host's Put fails on the given keys
WithPutFailing(c, keys) == [c EXCEPT !.PutFails = keys]

StakeArgs(nodeId, amount, nonce, license, nodeType) ==
    [method |-> "stakeWithGmSign", node_id |-> nodeId, amount |-> amount,
     sm2_signature |-> "sig", data_hash |-> "hash", nonce |-> nonce,
     business_license_hash |-> license, filing_number_hash |-> "FIL0000001",
     node_type |-> nodeType]

\* the part of a stake invocation that the replay guard digests
Payload(c) ==
    [caller |-> c.Caller, nodeId |-> c.Args.node_id, amount |-> c.Args.amount,
     ts |-> c.TxTimeStamp, nonce |-> c.Args.nonce]

NodeIds == {"n1", "n2"}
Amounts == {50, 10000}
Nonces == {1}
Licenses == {"LIC0000001"}
NodeTypes == {0, 1, 2}
Deltas == {-1000, 950}
WithdrawAmounts == {1, 20000}
ReportIds == {"threat_1.2.3.4_1000"}

\* the invocations the host may deliver, per method
StakeInputs ==
    {Ctx(x[1], x[2], StakeArgs(x[3], x[4], x[5], x[6], x[7])) :
        x \in NodeCallers \X Times \X NodeIds \X Amounts \X Nonces \X Licenses \X NodeTypes}

ChallengeInputs ==
    {Ctx(x[1], x[2], [method |-> "submitChallenge", cache_key |-> "k1",
                      reason |-> "stale"]) : x \in Callers \X Times}

ReputationInputs ==
    {Ctx(x[1], x[2], [method |-> "updateReputation", node_address |-> x[3],
                      reputation_delta |-> x[4]]) :
        x \in Callers \X Times \X NodeCallers \X Deltas}

SlashInputs ==
    {Ctx(x[1], x[2], [method |-> "slashNode", node_address |-> x[3],
                      reason |-> "misbehaviour"]) : x \in Callers \X Times \X NodeCallers}

WithdrawalInputs ==
    {Ctx(x[1], x[2], [method |-> "requestWithdrawal", amount |-> x[3]]) :
        x \in Callers \X Times \X WithdrawAmounts}

ValidatorInputs ==
    {Ctx(x[1], x[2], [method |-> "addValidator", validator_address |-> x[3]]) :
        x \in Callers \X Times \X {Bob, "short"}}

PauseInputs == {Ctx(x[1], x[2], [method |-> "pauseContract"]) : x \in Callers \X Times}

ResumeInputs == {Ctx(x[1], x[2], [method |-> "resumeContract"]) : x \in Callers \X Times}

ThreatInputs ==
    {Ctx(x[1], x[2], [method |-> "submitThreatReport", threat_type |-> "ddos",
                      source_ip |-> "1.2.3.4", target_ip |-> "5.6.7.8",
                      threat_level |-> x[3], context |-> "ctx"]) :
        x \in Callers \X Times \X {"Info", "Critical"}}

VerifyInputs ==
    {Ctx(x[1], x[2], [method |-> "verifyThreatReport", report_id |-> x[3]]) :
        x \in Callers \X Times \X ReportIds}

\* the read-only invocations: node info, statistics, a report, the threat list
QueryInputs ==
    {Ctx(Alice, x[1], [method |-> "getNodeInfo", node_address |-> x[2]]) :
        x \in Times \X NodeCallers}
        \cup {Ctx(Alice, ts, [method |-> "getContractStats"]) : ts \in Times}
        \cup {Ctx(Alice, x[1], [method |-> "getThreatReport", report_id |-> x[2]]) :
                  x \in Times \X ReportIds}
        \cup {Ctx(Alice, ts, [method |-> "getGlobalThreatList"]) : ts \in Times}

\* the transaction of the host around one invocation: what the handler wrote
\* and emitted is kept when it succeeds and discarded when it returns an error
\* variant: a host that applies what a failed invocation wrote
SettleKeepsWrites(s, ev, r) == r

Settle(s, ev, r) == IF r.err = Nil THEN r ELSE [r EXCEPT !.store = s, !.events = ev]

Transact(s, ev, c) == Settle(s, ev, InvokeContract(s, ev, c))

\* the state after an invocation c that ended as r
Deliver(c, r) ==
    /\ store' = r.store
    /\ events' = r.events
    /\ now' = c.TxTimeStamp
    /\ lastErr' = r.err
    /\ accepted' = IF c.Args.method = "stakeWithGmSign" /\ r.err = Nil
                   THEN accepted \cup {Payload(c)}
                   ELSE accepted
    /\ UNCHANGED sol

\* one invocation: the host stamps it and runs it as a transaction
Invoke(c) == c.TxTimeStamp >= now /\ Deliver(c, Transact(store, events, c))

\* each action is one invocation, taken while the event log of the model has room
StakeNode ==
    \E c \in StakeInputs :
        Cardinality(accepted) < MaxStakes /\ Len(events) < MaxEvents /\ Invoke(c)

SubmitChallenge == \E c \in ChallengeInputs : Len(events) < MaxEvents /\ Invoke(c)

UpdateReputation == \E c \in ReputationInputs : Len(events) < MaxEvents /\ Invoke(c)

SlashNode == \E c \in SlashInputs : Len(events) < MaxEvents /\ Invoke(c)

RequestWithdrawal == \E c \in WithdrawalInputs : Len(events) < MaxEvents /\ Invoke(c)

AddValidator == \E c \in ValidatorInputs : Len(events) < MaxEvents /\ Invoke(c)

PauseContract == \E c \in PauseInputs : Len(events) < MaxEvents /\ Invoke(c)

ResumeContract == \E c \in ResumeInputs : Len(events) < MaxEvents /\ Invoke(c)

SubmitThreatReport == \E c \in ThreatInputs : Len(events) < MaxEvents /\ Invoke(c)

VerifyThreatReport == \E c \in VerifyInputs : Len(events) < MaxEvents /\ Invoke(c)

Query == \E c \in QueryInputs : Len(events) < MaxEvents /\ Invoke(c)

\* the Go contract as InitContract leaves it when the owner deploys with a
\* governance address
InitGo ==
    /\ store = InitContract(<< >>, Ctx(OwnerAddr, 1000, [governance_address |-> GovAddr]))
    /\ events = << >>
    /\ now = 1000
    /\ lastErr = Nil
    /\ accepted = {}

Init == InitGo /\ sol = << >>

Next ==
    \/ StakeNode
    \/ SubmitChallenge
    \/ UpdateReputation
    \/ SlashNode
    \/ RequestWithdrawal
    \/ AddValidator
    \/ PauseContract
    \/ ResumeContract
    \/ SubmitThreatReport
    \/ VerifyThreatReport
    \/ Query

Spec == Init /\ [][Next]_vars

----------------------------------------------------------------------------
(* The consensus-cap scenario: more root-tier candidates than the list holds *)

RootAddr(i) == "root_addr_" \o Itoa(i)
RootId(i) == "root-" \o Itoa(i)

RootCallers == {RootAddr(i) : i \in 1..RootCandidates}

CapTimes == {1000}

\* root-tier stakes of the candidates, each under its own node-id
RootStakeInputs ==
    {Ctx(RootAddr(x[1]), x[2], StakeArgs(RootId(x[1]), MinStakeRoot, 1, "LIC0000001", 0)) :
        x \in (1..RootCandidates) \X CapTimes}

RootSlashInputs ==
    {Ctx(GovAddr, x[2], [method |-> "slashNode", node_address |-> RootAddr(x[1]),
                         reason |-> "misbehaviour"]) : x \in (1..Slashable) \X CapTimes}

\* a candidate stakes; the candidates come forward in the order of their number
RootStake ==
    \E c \in RootStakeInputs :
        /\ \E i \in 1..(Cardinality(accepted) + 1) : c.Caller = RootAddr(i)
        /\ Invoke(c)

\* the governance slashes one of the first candidates, each at most once
RootSlash ==
    \E c \in RootSlashInputs :
        /\ Has(store, NodeKeyPrefix \o c.Args.node_address)
        /\ store[NodeKeyPrefix \o c.Args.node_address].Status # Slashed
        /\ Invoke(c)

NextCap == RootStake \/ RootSlash

SpecCap == Init /\ [][NextCap]_vars

----------------------------------------------------------------------------
(* The withdrawal-ledger scenario: stakes and withdrawals of amounts up to   *)
(* the largest a uint64 holds, over two lock periods                         *)

\* the largest amount strconv.ParseUint accepts
BigAmount == Uint64Range - 1

LedgerTimes == {1000, 1000 + StakeLockPeriod, 1000 + 2 * StakeLockPeriod}

LedgerAmounts == {MinStakeRoot, BigAmount}

LedgerStakeInputs ==
    {Ctx(Alice, x[1], StakeArgs(x[2], x[3], 1, "LIC0000001", x[4])) :
        x \in LedgerTimes \X NodeIds \X LedgerAmounts \X {0, 2}}

LedgerWithdrawalInputs ==
    {Ctx(x[1], x[2], [method |-> "requestWithdrawal", amount |-> x[3]]) :
        x \in NodeCallers \X LedgerTimes \X LedgerAmounts}

LedgerStake ==
    \E c \in LedgerStakeInputs : Len(events) < MaxLedgerEvents /\ Invoke(c)

LedgerWithdraw ==
    \E c \in LedgerWithdrawalInputs : Len(events) < MaxLedgerEvents /\ Invoke(c)

NextLedger == LedgerStake \/ LedgerWithdraw

SpecLedger == Init /\ [][NextLedger]_vars

----------------------------------------------------------------------------
(* The threat-report scenario: nodes that have been activated submit reports *)
(* on both sides of the 300-second boundaries, and the host's Put may fail   *)
(* on the global threat list                                                 *)

\* timestamps around the bucket boundaries 1200 and 1500
ThreatTimes == {1000, 1199, 1200, 1500}

SourceIPs == {"1.2.3.4", "10.0.0."}

ThreatLevels == {"Warning", "Critical", "Emergency"}

\* the failures of the host the scenario injects: none, or Put on the list
PutFaults == {{}, {GlobalThreatListKey}}

ThreatStakeInputs ==
    {Ctx(Alice, 1000, StakeArgs("n1", MinStakeRoot, 1, "LIC0000001", 2)),
     Ctx(Bob, 1000, StakeArgs("n2", MinStakeRoot, 1, "LIC0000001", 2))}

ThreatArgs(ip, level) ==
    [method |-> "submitThreatReport", threat_type |-> "ddos", source_ip |-> ip,
     target_ip |-> "5.6.7.8", threat_level |-> level, context |-> "ctx"]

ThreatReportInputs ==
    {WithPutFailing(Ctx(x[1], x[2], ThreatArgs(x[3], x[4])), x[5]) :
        x \in NodeCallers \X ThreatTimes \X SourceIPs \X ThreatLevels \X PutFaults}

ThreatStake ==
    \E c \in ThreatStakeInputs : Len(events) < MaxThreatEvents /\ Invoke(c)

\* the step of the lifecycle (register -> active) that no handler performs:
\* a Registered node becomes Active
Activate ==
    \E a \in NodeCallers :
        /\ Has(store, NodeKeyPrefix \o a)
        /\ store[NodeKeyPrefix \o a].Status = Registered
        /\ store' = [store EXCEPT ![NodeKeyPrefix \o a].Status = Active]
        /\ UNCHANGED <<events, now, lastErr, accepted, sol>>

ThreatSubmit ==
    \E c \in ThreatReportInputs : Len(events) < MaxThreatEvents /\ Invoke(c)

NextThreat == ThreatStake \/ Activate \/ ThreatSubmit

SpecThreat == Init /\ [][NextThreat]_vars

----------------------------------------------------------------------------
(* The verification scenario: the owner names three validators, an activated *)
(* node reports a threat, and the validators verify the report and rate the  *)
(* reporter                                                                  *)

Validators == {"validator1", "validator2", "validator3"}

\* the report the scenario is about
VerifiedReport == "threat_1.2.3.4_1000"

VerifyStakeInputs == {Ctx(Alice, 1000, StakeArgs("n1", MinStakeRoot, 1, "LIC0000001", 2))}

VerifyValidatorInputs ==
    {Ctx(OwnerAddr, 1000, [method |-> "addValidator", validator_address |-> v]) :
        v \in Validators}

VerifySubmitInputs == {Ctx(Alice, 1000, ThreatArgs("1.2.3.4", "Warning"))}

VerifyRatingInputs ==
    {Ctx("validator1", 1000, [method |-> "updateReputation", node_address |-> Alice,
                              reputation_delta |-> 950])}

VerifyReportInputs ==
    {Ctx(v, 1000, [method |-> "verifyThreatReport", report_id |-> VerifiedReport]) :
        v \in Validators \cup {Alice}}

VerifyStake == \E c \in VerifyStakeInputs : Len(events) < MaxVerifyEvents /\ Invoke(c)

VerifyAddValidator ==
    \E c \in VerifyValidatorInputs : Len(events) < MaxVerifyEvents /\ Invoke(c)

VerifySubmit == \E c \in VerifySubmitInputs : Len(events) < MaxVerifyEvents /\ Invoke(c)

VerifyRating == \E c \in VerifyRatingInputs : Len(events) < MaxVerifyEvents /\ Invoke(c)

VerifyReport == \E c \in VerifyReportInputs : Len(events) < MaxVerifyEvents /\ Invoke(c)

NextVerify ==
    \/ VerifyStake
    \/ Activate
    \/ VerifyAddValidator
    \/ VerifySubmit
    \/ VerifyRating
    \/ VerifyReport

SpecVerify == Init /\ [][NextVerify]_vars

----------------------------------------------------------------------------
(* The deployment scenario: InitContract run by either of two deployers with *)
(* each combination of the governance arguments, and run again later         *)

Deployers == {OwnerAddr, Alice}

\* the arguments of InitContract: none of the two governance arguments, one
\* of them, or both
InitArgs ==
    {[version |-> "1"],
     [version |-> "1", _arg0 |-> GovAddr],
     [version |-> "1", governance_address |-> GovAddr],
     [version |-> "1", _arg0 |-> Bob, governance_address |-> GovAddr]}

InitInputs == {Ctx(x[1], 1000, x[2]) : x \in Deployers \X InitArgs}

\* InitContract run on the store as it is
Reinit ==
    \E c \in InitInputs :
        /\ store' = InitContract(store, c)
        /\ lastErr' = Nil
        /\ UNCHANGED <<events, now, accepted, sol>>

InitDeploy ==
    /\ \E c \in InitInputs : store = InitContract(<< >>, c)
    /\ events = << >>
    /\ now = 1000
    /\ lastErr = Nil
    /\ accepted = {}
    /\ sol = << >>

NextDeploy == Reinit \/ StakeNode \/ PauseContract \/ ResumeContract

SpecDeploy == InitDeploy /\ [][NextDeploy]_vars

----------------------------------------------------------------------------
(* The ThreatEvidence contract (src/contracts/ThreatEvidence.sol).           *)
(* A function is an operator from (storage, msg.sender, block.timestamp,     *)
(* arguments) to the storage it leaves; a failed require reverts: the        *)
(* storage is as before the call, with the reason in err.                    *)

MIN_VERIFICATION_COUNT == 3

Revert(st, reason) == [st EXCEPT !.err = reason]

Emit(st, name, fields) == [st EXCEPT !.log = Append(@, <<name, fields>>), !.err = Nil]

\* constructor(_governanceCommittee)
Constructor(sender, governanceCommittee) ==
    [contractState |-> StateActive,
     threatReports |-> << >>,
     authorizedAgents |-> {},
     authorizedValidators |-> {governanceCommittee},
     usedNonces |-> {},
     owner |-> sender,
     governanceCommittee |-> governanceCommittee,
     log |-> << >>,
     err |-> Nil]

\* keccak256(abi.encodePacked(sender, sourceIP, targetIP, timestamp, nonce)):
\* the packed encoding runs the two strings together
RequestHash(sender, sourceIP, targetIP, ts, nonce) ==
    <<sender, sourceIP \o targetIP, ts, nonce>>

SolSubmitThreatReport(st, sender, ts, reportData, nonce) ==
    IF st.contractState # StateActive THEN Revert(st, "Contract is not active")
    ELSE IF sender \notin st.authorizedAgents
    THEN Revert(st, "Only authorized agents can call this function")
    ELSE
    LET requestHash == RequestHash(sender, reportData.sourceIP, reportData.targetIP,
                                   ts, nonce)
        threatId == "threat_" \o reportData.sourceIP \o "_" \o ToString(ts)
        newReport == [id |-> threatId,
                      timestamp |-> ts,
                      sourceIP |-> reportData.sourceIP,
                      targetIP |-> reportData.targetIP,
                      threatType |-> reportData.threatType,
                      threatLevel |-> reportData.threatLevel,
                      context |-> reportData.context,
                      evidenceHash |-> reportData.evidenceHash,
                      geolocation |-> reportData.geolocation,
                      agentAddress |-> sender,
                      verified |-> FALSE,
                      verificationCount |-> 0]
    IN
    IF requestHash \in st.usedNonces THEN Revert(st, "Nonce already used")
    ELSE IF reportData.threatType >= 7 THEN Revert(st, "Invalid threat type")
    ELSE IF reportData.threatLevel >= 4 THEN Revert(st, "Invalid threat level")
    ELSE IF Len(reportData.sourceIP) = 0 THEN Revert(st, "Source IP is required")
    ELSE IF Len(reportData.evidenceHash) = 0 THEN Revert(st, "Evidence hash is required")
    ELSE IF threatId \in DOMAIN st.threatReports
    THEN Revert(st, "Threat report ID already exists")
    ELSE Emit([st EXCEPT !.usedNonces = @ \cup {requestHash},
                         !.threatReports = Put(@, threatId, newReport)],
              "ThreatReportSubmitted", <<threatId, reportData.sourceIP, sender, ts>>)

\* a verifyThreatReport that marks the report one verification early
SolVerifyThreatReportEarly(st, sender, threatId) ==
    IF sender \notin st.authorizedValidators
    THEN Revert(st, "Only authorized validators can call this function")
    ELSE IF threatId \notin DOMAIN st.threatReports
    THEN Revert(st, "Threat report does not exist")
    ELSE
    LET count == st.threatReports[threatId].verificationCount + 1
        report == [st.threatReports[threatId] EXCEPT
                       !.verificationCount = count,
                       !.verified = IF count + 1 >= MIN_VERIFICATION_COUNT THEN TRUE ELSE @]
    IN Emit([st EXCEPT !.threatReports = Put(@, threatId, report)],
            "ThreatReportVerified", <<threatId, sender, count>>)

SolVerifyThreatReport(st, sender, threatId) ==
    IF sender \notin st.authorizedValidators
    THEN Revert(st, "Only authorized validators can call this function")
    ELSE IF threatId \notin DOMAIN st.threatReports
    THEN Revert(st, "Threat report does not exist")
    ELSE
    LET count == st.threatReports[threatId].verificationCount + 1
        report == [st.threatReports[threatId] EXCEPT
                       !.verificationCount = count,
                       !.verified = IF count >= MIN_VERIFICATION_COUNT THEN TRUE ELSE @]
    IN Emit([st EXCEPT !.threatReports = Put(@, threatId, report)],
            "ThreatReportVerified", <<threatId, sender, count>>)

SolAddAuthorizedAgent(st, sender, agentAddress) ==
    IF sender # st.governanceCommittee
    THEN Revert(st, "Only governance can call this function")
    ELSE [st EXCEPT !.authorizedAgents = @ \cup {agentAddress}, !.err = Nil]

SolAddAuthorizedValidator(st, sender, validatorAddress) ==
    IF sender # st.governanceCommittee
    THEN Revert(st, "Only governance can call this function")
    ELSE [st EXCEPT !.authorizedValidators = @ \cup {validatorAddress}, !.err = Nil]

SolPauseContract(st, sender, ts) ==
    IF sender # st.governanceCommittee
    THEN Revert(st, "Only governance can call this function")
    ELSE Emit([st EXCEPT !.contractState = Paused],
              "ContractStateChanged", <<Paused, ts>>)

SolResumeContract(st, sender, ts) ==
    IF sender # st.governanceCommittee
    THEN Revert(st, "Only governance can call this function")
    ELSE Emit([st EXCEPT !.contractState = StateActive],
              "ContractStateChanged", <<StateActive, ts>>)

SolTimes == {1000, 1300}

ReportData(sourceIP, evidenceHash) ==
    [threatType |-> 0, sourceIP |-> sourceIP, targetIP |-> "5.6.7.8", threatLevel |-> 2,
     context |-> "ctx", evidenceHash |-> evidenceHash, geolocation |-> "geo"]

SolThreatIds == {"threat_1.2.3.4_1000", "threat_1.2.3.4_1300"}

\* a call on the ThreatEvidence contract in a block stamped ts
SolCall(ts, st) ==
    /\ ts >= now
    /\ sol' = st
    /\ now' = ts
    /\ UNCHANGED <<store, events, lastErr, accepted>>

SolSubmit ==
    \E sender \in Callers, ts \in SolTimes, hash \in {"", "0xabc"} :
        /\ Len(sol.log) < SolMaxEvents
        /\ SolCall(ts, SolSubmitThreatReport(sol, sender, ts, ReportData("1.2.3.4", hash), 1))

SolVerify ==
    \E sender \in Callers, ts \in SolTimes, id \in SolThreatIds :
        /\ Len(sol.log) < SolMaxEvents
        /\ SolCall(ts, SolVerifyThreatReport(sol, sender, id))

SolAddAgent ==
    \E sender \in Callers, ts \in SolTimes, agent \in NodeCallers :
        /\ Len(sol.log) < SolMaxEvents
        /\ SolCall(ts, SolAddAuthorizedAgent(sol, sender, agent))

SolAddValidator ==
    \E sender \in Callers, ts \in SolTimes, validator \in NodeCallers :
        /\ Len(sol.log) < SolMaxEvents
        /\ SolCall(ts, SolAddAuthorizedValidator(sol, sender, validator))

SolPause ==
    \E sender \in Callers, ts \in SolTimes :
        /\ Len(sol.log) < SolMaxEvents
        /\ SolCall(ts, SolPauseContract(sol, sender, ts))

SolResume ==
    \E sender \in Callers, ts \in SolTimes :
        /\ Len(sol.log) < SolMaxEvents
        /\ SolCall(ts, SolResumeContract(sol, sender, ts))

InitSol == InitGo /\ sol = Constructor(OwnerAddr, GovAddr)

NextSol ==
    \/ SolSubmit
    \/ SolVerify
    \/ SolAddAgent
    \/ SolAddValidator
    \/ SolPause
    \/ SolResume

SpecSol == InitSol /\ [][NextSol]_vars

----------------------------------------------------------------------------
(* What the properties read from a state *)

\* every address a node record may be stored under
Addresses == Callers \cup RootCallers

NodeKey(addr) == NodeKeyPrefix \o addr

\* the addresses that have a node record in store s
Staked(s) == {a \in Addresses : Has(s, NodeKey(a))}

ConsensusList == store[ConsensusNodesKey]
PartitionList == store[PartitionNodesKey]
EdgeList == store[EdgeNodesKey]

DuplicateFree(list) == \A i, j \in 1..Len(list) : list[i] = list[j] => i = j

Disjoint(l1, l2) == \A i \in 1..Len(l1) : ~InList(l2, l1[i])

ContractPaused == store[ContractStateKey] = Itoa(Paused)

NotActiveErrors == {"contract is not active, current state: " \o Itoa(n) : n \in 0..2}

\* the invocation is one the host can deliver now
Deliverable(c) == c.TxTimeStamp >= now

\* the invocation returns an error and leaves store and event log as they are
RejectedNoChange(c) ==
    LET r == InvokeContract(store, events, c) IN
    r.err # Nil /\ r.store = store /\ r.events = events

\* stake invocations of every caller, with amounts below every tier minimum too
StakeProbes ==
    {Ctx(x[1], x[2], StakeArgs(x[3], x[4], x[5], "LIC0000001", x[6])) :
        x \in Callers \X Times \X NodeIds \X {50, 10000} \X Nonces \X NodeTypes}

----------------------------------------------------------------------------
(* C1 *)

\* every mutating invocation other than resumeContract
GatedInputs ==
    StakeInputs \cup ChallengeInputs \cup ReputationInputs \cup SlashInputs
        \cup WithdrawalInputs \cup ValidatorInputs \cup PauseInputs
        \cup ThreatInputs \cup VerifyInputs

\* C1: while the contract state is Paused, every mutating handler other than
\* resumeContract, whoever calls it, fails with a "contract is not active"
\* error and leaves the store and the event log unchanged.
C1_PausedGate ==
    ContractPaused =>
        \A c \in GatedInputs :
            Deliverable(c) =>
                LET r == InvokeContract(store, events, c) IN
                /\ r.err \in NotActiveErrors
                /\ r.store = store
                /\ r.events = events

----------------------------------------------------------------------------
(* C2 *)

\* the stake invocations that carry payload p (same caller, node-id, amount,
\* timestamp and nonce), whatever tier they name
Replays(p) == {c \in StakeProbes : Payload(c) = p}

NonceKeyOf(p) == UsedNonceKey \o RequestKey(p.caller, p.nodeId, p.amount, p.ts, p.nonce)

\* the used-nonce set never loses an entry: the nonce key of every accepted
\* stake is present
NoncesKept == \A p \in accepted : Has(store, NonceKeyOf(p))

\* C2 as stated: a replay of an accepted stake payload is rejected with
\* "nonce already used" and changes neither the store nor the event log, and
\* the used-nonce set never loses an entry.
C2_ReplayNonceUsed ==
    /\ \A p \in accepted : \A c \in Replays(p) :
          LET r == InvokeContract(store, events, c) IN
          r.err = "nonce already used" /\ r.store = store /\ r.events = events
    /\ NoncesKept

\* C2 as it holds: a replay of an accepted stake payload is rejected and
\* changes neither the store nor the event log; the error is "nonce already
\* used" while the contract is Active, and the state-gate error while it is
\* not (the gate is checked before the nonce); the used-nonce set never loses
\* an entry.
C2_ReplayRejected ==
    /\ \A p \in accepted : \A c \in Replays(p) :
          LET r == InvokeContract(store, events, c) IN
          /\ r.err = IF ContractPaused
                     THEN "contract is not active, current state: " \o Itoa(Paused)
                     ELSE "nonce already used"
          /\ r.store = store
          /\ r.events = events
    /\ NoncesKept

\* an accepted stake was replayed and the replay was turned down on its nonce
C2_Witness ==
    /\ accepted # {}
    /\ lastErr = "nonce already used"

----------------------------------------------------------------------------
(* C3, C4 *)

\* C3: the consensus, partition and edge lists are pairwise disjoint and each
\* is duplicate-free in every reachable state.
C3_TierDisjoint ==
    /\ DuplicateFree(ConsensusList)
    /\ DuplicateFree(PartitionList)
    /\ DuplicateFree(EdgeList)
    /\ Disjoint(ConsensusList, PartitionList)
    /\ Disjoint(ConsensusList, EdgeList)
    /\ Disjoint(PartitionList, EdgeList)

\* C4: for every node record N, N.consensus-flag is true if and only if
\* N.address is a member of the consensus list.
C4_FlagSymmetry ==
    \A a \in Staked(store) :
        store[NodeKey(a)].IsConsensusNode <=> InList(ConsensusList, a)

----------------------------------------------------------------------------
(* C5 *)

----------------------------------------------------------------------------
(* C6, C7 *)

\* C6: for every node record N, NODEID_TO_ADDR_<N.node-id> equals N.address,
\* and every NODEID_TO_ADDR_<id> entry points to an existing node record
\* whose node-id is that id.
C6_IndexConsistency ==
    /\ \A a \in Staked(store) :
          LET N == store[NodeKey(a)] IN
          /\ Has(store, NodeIdToAddressKey \o N.NodeId)
          /\ store[NodeIdToAddressKey \o N.NodeId] = N.NodeAddress
    /\ \A id \in NodeIds :
          Has(store, NodeIdToAddressKey \o id) =>
              LET addr == store[NodeIdToAddressKey \o id] IN
              /\ Has(store, NodeKey(addr))
              /\ store[NodeKey(addr)].NodeId = id

\* no two node records carry the same node-id
IdUnique ==
    \A a, b \in Staked(store) :
        store[NodeKey(a)].NodeId = store[NodeKey(b)].NodeId => a = b

\* the stake invocations the host can deliver whose node-id is mapped
MappedIdStakes ==
    {c \in StakeProbes :
        Deliverable(c) /\ Has(store, NodeIdToAddressKey \o c.Args.node_id)}

\* the node records of store s, by address
NodeRecords(s) == [a \in Staked(s) |-> s[NodeKey(a)]]

\* the checks stakeWithGmSign makes before it looks the node-id up
ReachesIdCheck(c) ==
    /\ ~ContractPaused
    /\ ~Has(store, NonceKeyOf(Payload(c)))
    /\ c.Args.amount >= getMinStakeForNodeType(c.Args.node_type)

\* C7 as stated: a stake whose node-id is already mapped is rejected with
\* "node ID already exists: <id>" whoever the caller is, and no two node
\* records carry the same node-id.
C7_DuplicateIdError ==
    /\ \A c \in MappedIdStakes :
          InvokeContract(store, events, c).err
              = "node ID already exists: " \o c.Args.node_id
    /\ IdUnique

\* C7 as it holds: a stake whose node-id is already mapped is rejected
\* whoever the caller is and creates or changes no node record; the error is
\* "node ID already exists: <id>" when the call gets as far as the id check
\* (contract Active, nonce unused, amount at least the tier minimum) and the
\* error of the earlier check otherwise; no two node records carry the same
\* node-id.
C7_DuplicateIdRejected ==
    /\ \A c \in MappedIdStakes :
          LET r == InvokeContract(store, events, c) IN
          /\ r.err # Nil
          /\ NodeRecords(r.store) = NodeRecords(store)
          /\ ReachesIdCheck(c) => r.err = "node ID already exists: " \o c.Args.node_id
    /\ IdUnique

\* a stake was turned down on its node-id while another node holds the id
C7_Witness ==
    \E id \in NodeIds :
        /\ lastErr = "node ID already exists: " \o id
        /\ Has(store, NodeIdToAddressKey \o id)

----------------------------------------------------------------------------
(* C9 *)

IsGovernance(caller) == caller = store[GovernanceKey]

IsOwner(caller) == caller = store[OwnerKey]

IsValidator(caller) ==
    Has(store, ValidatorKey \o caller) /\ store[ValidatorKey \o caller] = "1"

IsActiveNode(caller) ==
    Has(store, NodeKey(caller)) /\ store[NodeKey(caller)].Status = Active

\* the invocations of capability-guarded handlers by a caller without the
\* capability
Unauthorized ==
    {c \in SlashInputs \cup PauseInputs \cup ResumeInputs : ~IsGovernance(c.Caller)}
        \cup {c \in ReputationInputs \cup VerifyInputs : ~IsValidator(c.Caller)}
        \cup {c \in ValidatorInputs : ~IsOwner(c.Caller)}
        \cup {c \in ChallengeInputs \cup ThreatInputs : ~IsActiveNode(c.Caller)}

\* C9: an invocation of a capability-guarded handler by a caller lacking the
\* capability returns an error and changes neither the store nor the event
\* log.
C9_CapabilityFailure == \A c \in Unauthorized : RejectedNoChange(c)

\* a caller that is not the governance address called a governance handler
\* while a node was staked, and was turned down
C9_Witness ==
    /\ Staked(store) # {}
    /\ \E a \in Callers :
          /\ ~IsGovernance(a)
          /\ lastErr = "only governance can call this function, caller: " \o a
                           \o ", governance: " \o store[GovernanceKey]

----------------------------------------------------------------------------
(* C8 *)

MaxReachedErrors ==
    {"max consensus nodes reached: " \o Itoa(MaxConsensusNodes),
     "failed to add to consensus list: max consensus nodes reached: "
         \o Itoa(MaxConsensusNodes)}

\* the root-tier stakes the host can deliver
RootStakes == {c \in RootStakeInputs : Deliverable(c)}

\* the checks stakeWithGmSign makes before it adds the caller to a tier list
\* (the license and filing texts of these stakes are well-formed)
ReachesListCheck(c) ==
    /\ ReachesIdCheck(c)
    /\ ~Has(store, NodeIdToAddressKey \o c.Args.node_id)

\* C8 as stated: the consensus list holds at most 21 addresses, and while it
\* holds 21 every root-tier stake is rejected with "max consensus nodes
\* reached: 21".
C8_CapError ==
    /\ Len(ConsensusList) <= MaxConsensusNodes
    /\ Len(ConsensusList) = MaxConsensusNodes =>
          \A c \in RootStakes : InvokeContract(store, events, c).err \in MaxReachedErrors

\* C8 as it holds: the consensus list holds at most 21 addresses; while it
\* holds fewer, a root-tier stake of a caller not in the list that passes the
\* earlier checks (state gate, nonce, tier minimum, node-id) is accepted and
\* appended; while it holds 21, every root-tier stake is rejected and leaves
\* the list as it is, with "max consensus nodes reached: 21" when it passes
\* the earlier checks and with the error of the failing check otherwise.
C8_CapHolds ==
    /\ Len(ConsensusList) <= MaxConsensusNodes
    /\ \A c \in RootStakes :
          LET r == InvokeContract(store, events, c) IN
          /\ Len(ConsensusList) = MaxConsensusNodes =>
                /\ r.err # Nil
                /\ r.store[ConsensusNodesKey] = ConsensusList
                /\ ReachesListCheck(c) => r.err \in MaxReachedErrors
          /\ ( /\ Len(ConsensusList) < MaxConsensusNodes
               /\ ReachesListCheck(c)
               /\ ~InList(ConsensusList, c.Caller) ) =>
                /\ r.err = Nil
                /\ r.store[ConsensusNodesKey] = Append(ConsensusList, c.Caller)

\* the list holds 21 addresses and a further root-tier stake was just turned
\* down on the cap
C8_Witness ==
    /\ Len(ConsensusList) = MaxConsensusNodes
    /\ Cardinality(accepted) = MaxConsensusNodes
    /\ lastErr \in MaxReachedErrors

----------------------------------------------------------------------------
(* C10 *)

\* the validators whose verification of report id the log records
VerifiersOf(id) ==
    {sol.log[i][2][2] : i \in {j \in 1..Len(sol.log) :
                                  /\ sol.log[j][1] = "ThreatReportVerified"
                                  /\ sol.log[j][2][1] = id}}

\* C10: verifyThreatReport is idempotent per verifier: a second call by the
\* same validator on the same report does not increment the report's
\* verification-count, so the count never exceeds the number of distinct
\* validators that verified the report.
C10_VerifyIdempotent ==
    \A id \in DOMAIN sol.threatReports :
        sol.threatReports[id].verificationCount <= Cardinality(VerifiersOf(id))

----------------------------------------------------------------------------
(* C11, C12 *)

C12_DistinctValidators ==
    \A id \in DOMAIN sol.threatReports :
        sol.threatReports[id].verified
            => Cardinality(VerifiersOf(id)) >= MIN_VERIFICATION_COUNT

----------------------------------------------------------------------------
(* C13 *)

\* the latest event of the log, when there is one
LastEvent == events[Len(events)]

\* C13: after any successful slashNode(a), in whatever state it was issued,
\* a is not a member of the consensus list and node(a).consensus-flag is
\* false.  A successful slashNode is the only step that appends NodeSlashed,
\* and no step that appends nothing changes the store.
C13_SlashRemoves ==
    (Len(events) > 0 /\ LastEvent[1] = "NodeSlashed") =>
        LET a == LastEvent[2][1] IN
        /\ ~InList(ConsensusList, a)
        /\ ~store[NodeKey(a)].IsConsensusNode

----------------------------------------------------------------------------
(* C14 *)

\* the minimum the claim names for a requested tier
TierMinimum(nodeType) ==
    IF nodeType = 0 THEN MinStakeRoot
    ELSE IF nodeType = 1 THEN MinStakePartition
    ELSE MinStakeEdge

\* the stake invocations the host can deliver whose amount is below the
\* minimum of the tier they request
UnderStaked ==
    {c \in StakeProbes :
        Deliverable(c) /\ c.Args.amount < TierMinimum(c.Args.node_type)}

InsufficientStake(c) ==
    "insufficient stake amount, required: " \o Itoa(TierMinimum(c.Args.node_type))
        \o ", provided: " \o Itoa(c.Args.amount)

\* the tier lists and the id mappings of store s
TierLists(s) == <<s[ConsensusNodesKey], s[PartitionNodesKey], s[EdgeNodesKey]>>

IdMappings(s) ==
    [id \in {i \in NodeIds : Has(s, NodeIdToAddressKey \o i)} |->
        s[NodeIdToAddressKey \o id]]

\* the invocation that ended as r created no node record, no id mapping and
\* no tier-list entry
NothingCreated(r) ==
    /\ NodeRecords(r.store) = NodeRecords(store)
    /\ IdMappings(r.store) = IdMappings(store)
    /\ TierLists(r.store) = TierLists(store)

\* C14 as stated: a stake with amount below the minimum of the requested
\* tier (10000 for node_type 0, 5000 for 1, 100 for any other) is rejected
\* with "insufficient stake amount, required: <min>, provided: <amount>" and
\* creates no node record, no id mapping and no tier-list entry.
C14_InsufficientError ==
    \A c \in UnderStaked :
        LET r == InvokeContract(store, events, c) IN
        r.err = InsufficientStake(c) /\ NothingCreated(r)

\* C14 as it holds: such a stake is rejected and creates no node record, no
\* id mapping and no tier-list entry; the error is "insufficient stake
\* amount, required: <min>, provided: <amount>" when the call gets as far as
\* the minimum check (contract Active, nonce unused) and the error of the
\* earlier failing check otherwise.
C14_InsufficientRejected ==
    \A c \in UnderStaked :
        LET r == InvokeContract(store, events, c) IN
        /\ r.err # Nil
        /\ NothingCreated(r)
        /\ (~ContractPaused /\ ~Has(store, NonceKeyOf(Payload(c))))
              => r.err = InsufficientStake(c)

\* a stake of 50 was just turned down on the minimum of its tier while
\* another node is staked
C14_Witness ==
    /\ Staked(store) # {}
    /\ \E c \in UnderStaked : lastErr = InsufficientStake(c)

----------------------------------------------------------------------------
(* C15 *)

\* the node of address a holds at least the minimum of every tier list it is
\* a member of
HoldsTierMinimum(a) ==
    LET stake == store[NodeKey(a)].StakeAmount IN
    /\ InList(ConsensusList, a) => stake >= MinStakeRoot
    /\ InList(PartitionList, a) => stake >= MinStakePartition
    /\ InList(EdgeList, a) => stake >= MinStakeEdge

\* C15: every node whose status is Registered or Active has stake-amount at
\* least the minimum of the tier list it belongs to (10000 consensus, 5000
\* partition, 100 edge); only slashNode, which leaves the status Slashed, may
\* take a stake below the minimum, requestWithdrawal may not.
C15_StakeAtLeastMinimum ==
    \A a \in Staked(store) :
        store[NodeKey(a)].Status \in {Registered, Active} => HoldsTierMinimum(a)

----------------------------------------------------------------------------
(* C16 *)

\* the withdrawal requests the host can deliver
Withdrawals == {c \in WithdrawalInputs : Deliverable(c)}

\* the errors requestWithdrawal may give for c, one per condition that fails
WithdrawalErrors(c) ==
    LET a == c.Caller
        node == store[NodeKey(a)]
    IN
    IF ~Has(store, NodeKey(a)) THEN {"node not found: " \o getNodeByAddress(store, a).err}
    ELSE (IF node.Status = Slashed THEN {"slashed nodes cannot withdraw"} ELSE {})
         \cup (IF c.TxTimeStamp < node.StakeStart + StakeLockPeriod
               THEN {"lock period not ended"} ELSE {})
         \cup (IF c.Args.amount > node.StakeAmount
               THEN {"insufficient stake amount, available: " \o Itoa(node.StakeAmount)
                        \o ", requested: " \o Itoa(c.Args.amount)}
               ELSE {})

\* C16: requestWithdrawal(amount) is accepted only if the caller owns a node
\* record whose status is not Slashed, the invocation timestamp is at least
\* stake-start + 604800 and amount is at most the stake-amount; in every
\* other case it fails with the error of a condition that does not hold
\* ("node not found", "slashed nodes cannot withdraw", "lock period not
\* ended", "insufficient stake amount") and changes neither the node, the
\* pending ledger nor the event log.
C16_WithdrawalGuards ==
    \A c \in Withdrawals :
        LET r == InvokeContract(store, events, c) IN
        IF WithdrawalErrors(c) = {}
        THEN r.err = Nil
        ELSE r.err \in WithdrawalErrors(c) /\ r.store = store /\ r.events = events

\* a withdrawal of a staked node was just turned down inside the lock period,
\* and the same request is accepted once the period has passed
C16_Witness ==
    /\ lastErr = "lock period not ended"
    /\ \E c \in Withdrawals :
          /\ Has(store, NodeKey(c.Caller))
          /\ InvokeContract(store, events, c).err = Nil

----------------------------------------------------------------------------
(* C17 *)

\* PENDING_WITHDRAWAL_<addr> of store s, zero while the key is absent
Pending(s, addr) ==
    IF Has(s, PendingWithdrawalKey \o addr)
    THEN ParseDecimal(s[PendingWithdrawalKey \o addr])
    ELSE 0

\* the sum of the amounts of the WithdrawalRequested events of addr in log ev
RECURSIVE WithdrawnSum(_, _)
WithdrawnSum(ev, addr) ==
    IF ev = << >> THEN 0
    ELSE WithdrawnSum(Tail(ev), addr)
             + (IF Head(ev)[1] = "WithdrawalRequested" /\ Head(ev)[2][1] = addr
                THEN ParseDecimal(Head(ev)[2][2])
                ELSE 0)

\* the step appended a WithdrawalRequested event of addr
WithdrawalAccepted(addr) ==
    /\ Len(events') = Len(events) + 1
    /\ events'[Len(events')][1] = "WithdrawalRequested"
    /\ events'[Len(events')][2][1] = addr

\* C17: for every address, PENDING_WITHDRAWAL_<addr> never decreases over
\* any sequence of invocations and always equals the sum of the amounts of
\* that address's accepted requestWithdrawal calls; each accepted
\* requestWithdrawal(amount) lowers the node's stake-amount by exactly amount
\* and raises the ledger by exactly amount.
C17_LedgerMonotone ==
    [][\A addr \in NodeCallers :
          /\ Pending(store', addr) >= Pending(store, addr)
          /\ Pending(store', addr) = WithdrawnSum(events', addr)
          /\ WithdrawalAccepted(addr) =>
                LET amount == ParseDecimal(events'[Len(events')][2][2]) IN
                /\ store'[NodeKey(addr)].StakeAmount
                       = store[NodeKey(addr)].StakeAmount - amount
                /\ Pending(store', addr) = Pending(store, addr) + amount]_vars

----------------------------------------------------------------------------
(* C18 *)

\* the key of the attestation of source ip submitted at ts
ReportKey(ip, ts) == ThreatAttestationKey \o "threat_" \o ip \o "_" \o Itoa(ts)

\* the attestations the store holds
Attestations ==
    {store[ReportKey(x[1], x[2])] :
        x \in {y \in SourceIPs \X ThreatTimes : Has(store, ReportKey(y[1], y[2]))}}

\* the report submissions the host can deliver whose caller is an Active node
ActiveSubmissions ==
    {c \in ThreatReportInputs : Deliverable(c) /\ IsActiveNode(c.Caller)}

\* the stored attestations with the source-ip and threat-type of submission c
PriorReports(c) ==
    {a \in Attestations :
        a.SourceIP = c.Args.source_ip /\ a.ThreatType = c.Args.threat_type}

DuplicateError == "threat report validation failed: duplicate threat report detected"

\* the 300-second bucket of a timestamp
Bucket(ts) == ts \div 300

----------------------------------------------------------------------------
(* C19, C20 *)

\* the global threat list, empty while the key is absent
GlobalThreatList ==
    IF Has(store, GlobalThreatListKey) THEN store[GlobalThreatListKey] ELSE << >>

\* the entries of the list for source ip
EntriesOf(ip) == {i \in 1..Len(GlobalThreatList) : GlobalThreatList[i].ip = ip}

\* the submissions at level Critical or Emergency during which the update of
\* the list fails
FailingListUpdates ==
    {c \in ActiveSubmissions :
        /\ GlobalThreatListKey \in c.PutFails
        /\ c.Args.threat_level \in {"Critical", "Emergency"}}

\* C19: if the update of the global threat list fails during a
\* submitThreatReport with level Critical or Emergency, the whole invocation
\* fails: no attestation is stored, the caller's node is not updated and no
\* ThreatReported event is emitted; consequently every stored attestation
\* with level at least Critical has its source-ip in the global threat list.
C19_ListFailurePropagates ==
    /\ \A c \in FailingListUpdates :
          LET r == Transact(store, events, c) IN
          r.err # Nil /\ r.store = store /\ r.events = events
    /\ \A a \in Attestations :
          a.ThreatLevel >= Critical => EntriesOf(a.SourceIP) # {}

\* the highest level among the stored reports of source ip at level Critical
\* or Emergency
HighestReported(ip) ==
    LET levels == {a.ThreatLevel : a \in {b \in Attestations :
                                            b.SourceIP = ip /\ b.ThreatLevel >= Critical}}
    IN CHOOSE l \in levels : \A m \in levels : m <= l

\* C20: the global threat list has at most one entry per source-ip, every
\* entry's level is Critical or Emergency, and an entry's level never
\* decreases: it equals the highest level among the accepted Critical and
\* Emergency reports for that source-ip.
C20_ListHoldsHighest ==
    /\ \A ip \in SourceIPs : Cardinality(EntriesOf(ip)) <= 1
    /\ \A i \in 1..Len(GlobalThreatList) :
          /\ GlobalThreatList[i].level \in {Critical, Emergency}
          /\ GlobalThreatList[i].level = HighestReported(GlobalThreatList[i].ip)

----------------------------------------------------------------------------
(* C21 *)

\* what getContractStats reports on store s
StatsOf(s) ==
    InvokeContract(s, << >>, Ctx(Alice, 1000, [method |-> "getContractStats"])).payload

\* nothing but stakes has changed the contract since InitContract
OnlyStakes == \A i \in 1..Len(events) : events[i][1] = "NodeStaked"

\* the sum of the amounts of the stakes the first n events record
RECURSIVE StakedSum(_)
StakedSum(n) ==
    IF n = 0 THEN 0 ELSE StakedSum(n - 1) + ParseDecimal(events[n][2][3])

\* 1 when the stake invocation c asks for the tier nodeType, else 0
OfTier(c, nodeType) == IF c.Args.node_type = nodeType THEN 1 ELSE 0

\* C21: after nodes have been staked and nothing else has happened,
\* getContractStats returns total_staked equal to the sum of the staked
\* amounts, and every further accepted stake of node_type 0, 1 or 2 raises
\* total_consensus_nodes, total_partition_nodes or total_edge_nodes by one
\* and leaves the other two counts as they are (so each count is the number
\* of nodes staked with that node_type).
C21_StatsAfterStakes ==
    OnlyStakes =>
        /\ StatsOf(store).TotalStaked = StakedSum(Len(events))
        /\ \A c \in StakeInputs :
               LET r == Transact(store, events, c) IN
               r.err = Nil =>
                   /\ StatsOf(r.store).TotalConsensusNodes =
                          StatsOf(store).TotalConsensusNodes + OfTier(c, 0)
                   /\ StatsOf(r.store).TotalPartitionNodes =
                          StatsOf(store).TotalPartitionNodes + OfTier(c, 1)
                   /\ StatsOf(r.store).TotalEdgeNodes =
                          StatsOf(store).TotalEdgeNodes + OfTier(c, 2)

----------------------------------------------------------------------------
(* C22 *)

\* the entries of the three tier lists: (list key, position)
ListEntries ==
    UNION {{<<k, i>> : i \in 1..Len(store[k])} :
               k \in {ConsensusNodesKey, PartitionNodesKey, EdgeNodesKey}}

\* the entries whose address has a record with status Active
ActiveEntries ==
    {e \in ListEntries :
        /\ Has(store, NodeKey(store[e[1]][e[2]]))
        /\ store[NodeKey(store[e[1]][e[2]])].Status = Active}

\* the sum of the stakes of the nodes the entries name
RECURSIVE StakeOver(_)
StakeOver(entries) ==
    IF entries = {} THEN 0
    ELSE LET e == CHOOSE x \in entries : TRUE
         IN store[NodeKey(store[e[1]][e[2]])].StakeAmount + StakeOver(entries \ {e})

----------------------------------------------------------------------------
(* C23 *)

\* stake invocations of every caller for the tiers 0, 1, 2 and a further value
TierProbes ==
    {Ctx(x[1], x[2], StakeArgs(x[3], 10000, 1, "LIC0000001", x[4])) :
        x \in Callers \X Times \X NodeIds \X {0, 1, 2, 3}}

\* the key of the tier list a node type belongs to
TierListKey(nodeType) ==
    CASE nodeType = 0 -> ConsensusNodesKey
      [] nodeType = 1 -> PartitionNodesKey
      [] OTHER -> EdgeNodesKey

\* C23: a successful stake (node-id, amount, node-type) by caller C creates
\* the node record of C with stake-amount = amount, status Registered,
\* reputation 100, stake-start = the invocation timestamp and consensus-flag
\* = (node-type = 0), and appends C to exactly one tier list: consensus for
\* node-type 0, partition for 1, edge for any other value.
C23_StakeCreatesNode ==
    \A c \in TierProbes :
        LET r == Transact(store, events, c) IN
        (Deliverable(c) /\ r.err = Nil) =>
            /\ Has(r.store, NodeKey(c.Caller))
            /\ r.store[NodeKey(c.Caller)].StakeAmount = c.Args.amount
            /\ r.store[NodeKey(c.Caller)].Status = Registered
            /\ r.store[NodeKey(c.Caller)].ReputationScore = 100
            /\ r.store[NodeKey(c.Caller)].StakeStart = c.TxTimeStamp
            /\ r.store[NodeKey(c.Caller)].IsConsensusNode = (c.Args.node_type = 0)
            /\ \A k \in {ConsensusNodesKey, PartitionNodesKey, EdgeNodesKey} :
                   r.store[k] = IF k = TierListKey(c.Args.node_type)
                                THEN Append(store[k], c.Caller)
                                ELSE store[k]

\* a stake has been accepted before, and one with a node type beyond 2 is
\* accepted now
C23_Witness ==
    /\ events # << >>
    /\ LastEvent[1] = "NodeStaked"
    /\ \E c \in TierProbes :
           /\ c.Args.node_type = 3
           /\ Deliverable(c)
           /\ Transact(store, events, c).err = Nil
           /\ Transact(store, events, c).store[EdgeNodesKey] =
                  Append(EdgeList, c.Caller)

----------------------------------------------------------------------------
(* C24 *)

\* the validators whose verification of the report is on record
VerifiersOfReport ==
    {v \in Validators : Has(store, ThreatVerificationKey \o VerifiedReport \o "_" \o v)}

\* the node record of the agent that reported
Reporter(s) == s[NodeKey(s[ThreatAttestationKey \o VerifiedReport].AgentID)]

\* the reputation of the reporter has only been moved by verifications
NeverRated == \A i \in 1..Len(events) : events[i][1] # "ReputationUpdated"

\* the stored report carries the mark of a verified report
MarkedVerified ==
    /\ "Verified" \in DOMAIN store[ThreatAttestationKey \o VerifiedReport]
    /\ store[ThreatAttestationKey \o VerifiedReport].Verified = TRUE

\* C24: each verification of a report by a validator that had not verified
\* it before credits the node of the reporting agent with reputation +5
\* (clamped at 1000) and verified-threats +1; once three distinct validators
\* have verified the report, it is verified, the reporter's reputation has
\* risen by 15 and its verified-threats by 3.
C24_VerificationCredits ==
    Has(store, ThreatAttestationKey \o VerifiedReport) =>
        /\ \A c \in VerifyReportInputs :
               LET r == Transact(store, events, c) IN
               (r.err = Nil /\ c.Caller \notin VerifiersOfReport) =>
                   /\ Reporter(r.store).ReputationScore =
                          (IF Reporter(store).ReputationScore + 5 > 1000
                           THEN 1000 ELSE Reporter(store).ReputationScore + 5)
                   /\ Reporter(r.store).VerifiedThreats =
                          Reporter(store).VerifiedThreats + 1
        /\ Cardinality(VerifiersOfReport) = 3 =>
               /\ MarkedVerified
               /\ Reporter(store).VerifiedThreats = 3
               /\ NeverRated => Reporter(store).ReputationScore = 100 + 15

----------------------------------------------------------------------------
(* C25 *)

\* C25: every successful stake appends exactly one NodeStaked event whose
\* ordered fields are (node-id, caller, amount, timestamp): four fields in
\* that order, amount and timestamp in decimal.
C25_NodeStakedFields ==
    \A c \in StakeProbes :
        LET r == Transact(store, events, c) IN
        (Deliverable(c) /\ r.err = Nil) =>
            r.events = Append(events,
                              <<"NodeStaked",
                                <<c.Args.node_id, c.Caller, Itoa(c.Args.amount),
                                  Itoa(c.TxTimeStamp)>> >>)

----------------------------------------------------------------------------
(* C26 *)

\* invocations of every method the model delivers
MethodInputs == GatedInputs \cup ResumeInputs \cup QueryInputs

\* the text begins with the prefix
StartsWith(str, prefix) ==
    Len(str) >= Len(prefix) /\ SubSeq(str, 1, Len(prefix)) = prefix

\* the invocation c under another method name
Renamed(c, name) == [c EXCEPT !.Args.method = name]

\* the invocation c without a method name
Unnamed(c) ==
    [c EXCEPT !.Args = [k \in DOMAIN c.Args \ {"method"} |-> c.Args[k]]]

\* the handler the specification assigns to a method name, run on (s, ev, c)
HandlerOf(name, s, ev, c) ==
    CASE name \in {"stakeNode", "stakeWithGmSign"} -> stakeWithGmSign(s, ev, c)
      [] name = "getNodeInfo" -> getNodeInfo(s, ev, c)
      [] name = "getContractStats" -> getContractStats(s, ev, c)
      [] name = "submitChallenge" -> submitChallenge(s, ev, c)
      [] name = "updateReputation" -> updateReputation(s, ev, c)
      [] name = "slashNode" -> slashNode(s, ev, c)
      [] name = "requestWithdrawal" -> requestWithdrawal(s, ev, c)
      [] name = "addValidator" -> addValidator(s, ev, c)
      [] name = "pauseContract" -> pauseContract(s, ev, c)
      [] name = "resumeContract" -> resumeContract(s, ev, c)
      [] name = "submitThreatReport" -> submitThreatReport(s, ev, c)
      [] name = "verifyThreatReport" -> verifyThreatReport(s, ev, c)
      [] name = "getThreatReport" -> getThreatReport(s, ev, c)
      [] name = "getGlobalThreatList" -> getGlobalThreatList(s, ev, c)

\* the dispatcher's result r is the handler's result h, and ok is true
\* exactly when the error is absent
SameOutcome(r, h) ==
    r = [store |-> h.store, events |-> h.events, payload |-> h.payload,
         err |-> h.err, ok |-> (h.err = Nil)]

\* the invocation c ends as the handler of its method name ends
RoutedToHandler(c) ==
    SameOutcome(InvokeContract(store, events, c),
                HandlerOf(c.Args.method, store, events, c))

\* the result r is an error of the given beginning, nothing has changed, and
\* ok is false
RefusalOf(r, text) ==
    /\ r.err # Nil
    /\ StartsWith(r.err, text)
    /\ r.store = store
    /\ r.events = events
    /\ r.ok = FALSE

RefusedWith(c, text) == RefusalOf(InvokeContract(store, events, c), text)

\* the invocations that are renamed or stripped of their name: stakes,
\* pause and resume calls, and the queries
NamedInputs == StakeInputs \cup PauseInputs \cup ResumeInputs \cup QueryInputs

\* names outside the recognized set
OtherNames == {"unknownMethod", "InitContract"}

\* C26 as stated: invoke routes every method name of the set stakeNode,
\* getNodeInfo, getContractStats, submitChallenge, updateReputation,
\* slashNode, requestWithdrawal, addValidator, pauseContract, resumeContract,
\* submitThreatReport, verifyThreatReport, getThreatReport,
\* getGlobalThreatList to its handler; a missing method or any other name
\* returns an error ('method is required' / 'unknown method') with no state
\* change; the ok flag is true exactly when the error is absent.
C26_RoutesStakeNode ==
    /\ \A c \in MethodInputs :
           RoutedToHandler(IF c.Args.method = "stakeWithGmSign"
                           THEN Renamed(c, "stakeNode") ELSE c)
    /\ \A c \in NamedInputs : RefusedWith(Unnamed(c), "method is required")
    /\ \A c \in NamedInputs : \A name \in OtherNames :
           RefusedWith(Renamed(c, name), "unknown method")

\* C26, with the name the dispatcher knows the stake handler by: invoke
\* routes every method name of the set stakeWithGmSign, getNodeInfo,
\* getContractStats, submitChallenge, updateReputation, slashNode,
\* requestWithdrawal, addValidator, pauseContract, resumeContract,
\* submitThreatReport, verifyThreatReport, getThreatReport,
\* getGlobalThreatList to its handler; a missing method or any other name
\* (stakeNode among them) returns an error ('method is required' /
\* 'unknown method') with no state change; the ok flag is true exactly when
\* the error is absent.
C26_Routes ==
    /\ \A c \in MethodInputs : RoutedToHandler(c)
    /\ \A c \in NamedInputs : RefusedWith(Unnamed(c), "method is required")
    /\ \A c \in NamedInputs : \A name \in OtherNames \cup {"stakeNode"} :
           RefusedWith(Renamed(c, name), "unknown method")

\* the dispatcher has run a handler that succeeded and one that failed, and
\* in this state routes a stake that is accepted and refuses it as stakeNode
C26_Witness ==
    /\ events # << >>
    /\ lastErr # Nil
    /\ \E c \in StakeInputs :
           /\ InvokeContract(store, events, c).ok
           /\ InvokeContract(store, events, c).events # events
           /\ ~InvokeContract(store, events, Renamed(c, "stakeNode")).ok

----------------------------------------------------------------------------
(* C27 *)

\* the governance principal the arguments of an init name for caller C
NamedGovernance(c) ==
    IF "_arg0" \in DOMAIN c.Args THEN c.Args["_arg0"]
    ELSE IF "governance_address" \in DOMAIN c.Args THEN c.Args.governance_address
    ELSE c.Caller

\* the store s is as the claim describes it right after the init c
FreshlyInitialised(s, c) ==
    /\ s[OwnerKey] = c.Caller
    /\ s[GovernanceKey] = NamedGovernance(c)
    /\ s[ContractStateKey] = Itoa(StateActive)
    /\ s[ConsensusNodesKey] = << >>
    /\ s[PartitionNodesKey] = << >>
    /\ s[EdgeNodesKey] = << >>
    /\ StatsOf(s) = [TotalStaked |-> 0, ActiveNodes |-> 0, TotalConsensusNodes |-> 0,
                     TotalPartitionNodes |-> 0, TotalEdgeNodes |-> 0]

\* C27: immediately after init by caller C the owner is C, the governance
\* principal is the value of _arg0 if given, else of governance_address if
\* given, else C, the contract state is Active, the three tier lists are
\* empty, and getContractStats returns zero in all five fields.  Checked for
\* the init that deploys the contract and for an init run on any later state.
C27_InitState ==
    \A c \in InitInputs :
        /\ FreshlyInitialised(InitContract(<< >>, c), c)
        /\ FreshlyInitialised(InitContract(store, c), c)

\* the contract has just been deployed by alice_addr with both governance
\* arguments, and _arg0 has won
C27_Witness ==
    /\ events = << >>
    /\ store = InitContract(<< >>, Ctx(Alice, 1000, [version |-> "1", _arg0 |-> Bob,
                                                     governance_address |-> GovAddr]))
    /\ store[OwnerKey] = Alice
    /\ store[GovernanceKey] = Bob

----------------------------------------------------------------------------
(* C28 *)

\* the stored contract state
ContractState == store[ContractStateKey]

\* the invocation c, delivered now, is accepted and leaves the contract in
\* the given state
LeavesContract(c, state) ==
    /\ Transact(store, events, c).err = Nil
    /\ Transact(store, events, c).store[ContractStateKey] = Itoa(state)

\* C28: the contract state only ever takes the values Active and Paused
\* (EmergencyStopped is unreachable); a pauseContract by governance sets it
\* to Paused; and from Paused a resumeContract by governance always succeeds
\* and sets it back to Active, so Paused is never a dead end.
C28_PauseResume ==
    /\ ContractState \in {Itoa(StateActive), Itoa(Paused)}
    /\ ContractState # Itoa(EmergencyStopped)
    /\ \A c \in PauseInputs : IsGovernance(c.Caller) => LeavesContract(c, Paused)
    /\ ContractPaused =>
           \A c \in ResumeInputs : IsGovernance(c.Caller) => LeavesContract(c, StateActive)

\* the contract is Paused after a pauseContract, with nodes staked before
C28_Witness ==
    /\ ContractPaused
    /\ Len(events) > 1
    /\ LastEvent[1] = "ContractPaused"
    /\ \E c \in ResumeInputs : IsGovernance(c.Caller) /\ LeavesContract(c, StateActive)

----------------------------------------------------------------------------
(* C29 *)

\* the result r is no error, and its payload is the object {success: false,
\* error: ...}
StructuredFailure(r) ==
    /\ r.err = Nil
    /\ r.ok
    /\ r.payload.success = FALSE
    /\ r.payload.error # ""

NodeInfoQueries ==
    {Ctx(Alice, 1000, [method |-> "getNodeInfo", node_address |-> a]) : a \in Callers}

ReportQueries ==
    {Ctx(Alice, 1000, [method |-> "getThreatReport", report_id |-> id]) :
        id \in ReportIds \cup {"threat_9.9.9.9_1"}}

\* C29: the read-only handlers do not raise on a missing entity: getNodeInfo
\* for an address without a node record and getThreatReport for an unknown
\* report id both return a non-error result whose payload is the structured
\* {success: false, error: ...} object.
C29_ReadersDoNotRaise ==
    /\ \A c \in NodeInfoQueries :
           ~Has(store, NodeKey(c.Args.node_address)) =>
               StructuredFailure(InvokeContract(store, events, c))
    /\ \A c \in ReportQueries :
           ~Has(store, ThreatAttestationKey \o c.Args.report_id) =>
               StructuredFailure(InvokeContract(store, events, c))

----------------------------------------------------------------------------
(* C30 *)

\* C30: init is one-time: the owner principal stored by the first init
\* never changes afterwards, under any sequence of invoke calls by any
\* caller and under any further init call.
C30_OwnerImmutable == [][store'[OwnerKey] = store[OwnerKey]]_vars

----------------------------------------------------------------------------
(* C31 *)

\* stake invocations with a license or a filing number that is too short
MalformedStakes ==
    LET wellFunded == {c \in StakeProbes : c.Caller = Alice /\ c.Args.amount = 10000}
    IN {[c EXCEPT !.Args.business_license_hash = "LIC"] : c \in wellFunded}
           \cup {[c EXCEPT !.Args.filing_number_hash = "FIL"] : c \in wellFunded}

\* the result r of an invocation is no error, or nothing has changed
DoneOrUntouched(r) == r.err # Nil => r.store = store /\ r.events = events

----------------------------------------------------------------------------
(* C32 *)

\* the result r of slashing the node at addr is a full slash: the penalty
\* reported is the whole stake, nothing of the stake is left, and the node
\* is Slashed
FullSlash(r, addr) ==
    /\ r.events[Len(r.events)] =
           <<"NodeSlashed",
             <<addr, Itoa(store[NodeKey(addr)].StakeAmount), "misbehaviour",
               r.events[Len(r.events)][2][4]>> >>
    /\ r.store[NodeKey(addr)].StakeAmount = 0
    /\ r.store[NodeKey(addr)].Status = Slashed

\* C32: for every stake amount a stake accepts (any unsigned 64-bit value not
\* below the tier minimum, up to 2^64 - 1), slashNode with 64-bit wrap-around
\* arithmetic computes a penalty equal to the node's whole stake, reports
\* that penalty in NodeSlashed, and leaves stake-amount = 0 and status =
\* Slashed.
C32_FullSlash ==
    \A c \in SlashInputs :
        LET r == Transact(store, events, c) IN
        r.err = Nil => FullSlash(r, c.Args.node_address)

----------------------------------------------------------------------------
(* C33 *)

\* ratings by every caller with deltas over the int64 range, its ends included
ExtremeRatings ==
    {Ctx(x[1], x[2], [method |-> "updateReputation", node_address |-> x[3],
                      reputation_delta |-> x[4]]) :
        x \in Callers \X Times \X NodeCallers
                  \X {Int64Min, -1000, -1, 0, 5, 950, Int64Max}}

\* clamp(sum, 0, 1000) of the mathematical sum
Clamped(sum) == IF sum < 0 THEN 0 ELSE IF sum > 1000 THEN 1000 ELSE sum

\* C33: for every current reputation in 0..1000 and every delta that parses
\* as a signed 64-bit integer (the extreme values included), a successful
\* updateReputation stores new = clamp(current + delta, 0, 1000) computed on
\* the mathematical sum, and emits ReputationUpdated(address, delta, new,
\* timestamp).
C33_ClampedSum ==
    \A c \in ExtremeRatings :
        LET r == Transact(store, events, c)
            addr == c.Args.node_address
        IN
        (r.err = Nil /\ store[NodeKey(addr)].ReputationScore \in 0..1000) =>
            LET new == Clamped(store[NodeKey(addr)].ReputationScore
                                   + c.Args.reputation_delta)
            IN /\ r.store[NodeKey(addr)].ReputationScore = new
               /\ r.events = Append(events,
                                    <<"ReputationUpdated",
                                      <<addr, Itoa(c.Args.reputation_delta), Itoa(new),
                                        Itoa(c.TxTimeStamp)>> >>)

----------------------------------------------------------------------------
(* C34 *)

\* C34: when updateReputation brings a node with consensus-flag set to a
\* reputation below 80, the same invocation both clears the node's
\* consensus-flag and removes its address from the consensus list.
C34_DropRemovesFromList ==
    \A c \in ReputationInputs :
        LET r == Transact(store, events, c)
            key == NodeKey(c.Args.node_address)
        IN
        (/\ r.err = Nil
         /\ store[key].IsConsensusNode
         /\ r.store[key].ReputationScore < 80) =>
            /\ ~r.store[key].IsConsensusNode
            /\ ~InList(r.store[ConsensusNodesKey], c.Args.node_address)

----------------------------------------------------------------------------
(* C35 *)

\* what of a node record is fixed at registration
Registration(node) ==
    <<node.NodeId, node.BusinessLicense, node.FilingNumber, node.StakeStart>>

\* C35: once a node record exists for an address, its node-id,
\* business-license-hash, filing-number-hash and stake-start (the time of
\* first admission) never change under any later invocation, further stakes
\* by the same address included.
C35_RegistrationFixed ==
    [][\A a \in Addresses :
           Has(store, NodeKey(a)) =>
               /\ Has(store', NodeKey(a))
               /\ Registration(store'[NodeKey(a)]) = Registration(store[NodeKey(a)])]_vars

----------------------------------------------------------------------------
(* C36: attestation ids are unique                                           *)

ThreatTypes == {"ddos", "malware"}

\* a further report of every node, at every time not yet passed, of both
\* threat types
ReportProbes ==
    {Ctx(x[1], x[2], [ThreatArgs(x[3], "Warning") EXCEPT !.threat_type = x[4]]) :
        x \in NodeCallers \X ThreatTimes \X SourceIPs \X ThreatTypes}

\* an accepted report was stored under a key that held no attestation
StoredFresh(r) ==
    r.err = Nil => ~Has(store, ThreatAttestationKey \o r.payload)

\* C36: no accepted submitThreatReport overwrites a stored attestation: the
\* id threat_<source-ip>_<timestamp> of an accepted report is the id of no
\* report stored before, also when the two reports have the same source-ip
\* and timestamp and differ in threat-type or reporter.
C36_AttestationIdsUnique ==
    \A c \in ReportProbes :
        c.TxTimeStamp >= now => StoredFresh(Transact(store, events, c))
----------------------------------------------------------------------------
(* C37: the staking lifecycle reaches Active                                 *)

\* invocations keep arriving: while some invocation can be delivered, one is
SpecFair == Init /\ [][Next]_vars /\ WF_vars(Next)

NodeActive(a) == a \in Staked(store) /\ store[NodeKey(a)].Status = Active

\* no node record has status Active
NoneActive == \A a \in Addresses : ~NodeActive(a)

\* C37: the staking lifecycle reaches Active: when invocations keep
\* arriving, then once nodes have staked some staked node comes to have
\* status Active (so that its submitThreatReport and submitChallenge pass
\* the active-node gate).
C37_ReachesActive == (Staked(store) # {}) ~> ~NoneActive
----------------------------------------------------------------------------
(* C38: Slashed is terminal for withdrawal                                   *)

\* an invocation of slashNode on addr has succeeded: the log holds its event
WasSlashed(addr) ==
    \E i \in 1..Len(events) :
        events[i][1] = "NodeSlashed" /\ events[i][2][1] = addr

WithdrawalsOf(addr) ==
    {c \in WithdrawalInputs : c.Caller = addr /\ c.TxTimeStamp >= now}

\* C38: once slashNode(a) has succeeded, every later requestWithdrawal by a
\* is rejected, whatever invocations have occurred in between.
C38_SlashedNeverWithdraws ==
    \A a \in NodeCallers :
        WasSlashed(a) =>
            \A c \in WithdrawalsOf(a) : Transact(store, events, c).err # Nil
----------------------------------------------------------------------------
(* C39: one event per successful mutating invocation                         *)

\* the event each mutating method emits
EventOfMethod ==
    [stakeWithGmSign |-> "NodeStaked",
     submitChallenge |-> "NodeChallenged",
     updateReputation |-> "ReputationUpdated",
     slashNode |-> "NodeSlashed",
     requestWithdrawal |-> "WithdrawalRequested",
     addValidator |-> "ValidatorAdded",
     pauseContract |-> "ContractPaused",
     resumeContract |-> "ContractResumed",
     submitThreatReport |-> "ThreatReported",
     verifyThreatReport |-> "ThreatVerified"]

\* the log of r is the log before with one event of this name at its end
AppendedOne(r, name) ==
    /\ Len(r.events) = Len(events) + 1
    /\ SubSeq(r.events, 1, Len(events)) = events
    /\ r.events[Len(r.events)][1] = name

EventRule(c, r) ==
    IF r.err = Nil /\ c.Args.method \in DOMAIN EventOfMethod
    THEN AppendedOne(r, EventOfMethod[c.Args.method])
    ELSE r.events = events

----------------------------------------------------------------------------
(* C40: the four queries are read-only                                       *)

\* the arguments of the queries: present and absent nodes and reports, and
\* the required argument left out
ReadArgs ==
    {[method |-> "getNodeInfo", node_address |-> a] : a \in Callers}
        \cup {[method |-> "getThreatReport", report_id |-> id] :
                  id \in ReportIds \cup {"threat_9.9.9.9_1"}}
        \cup {[method |-> m] : m \in {"getNodeInfo", "getContractStats",
                                     "getThreatReport", "getGlobalThreatList"}}

\* every query, by every caller, at every time
ReadProbes == {Ctx(x[1], x[2], x[3]) : x \in Callers \X Times \X ReadArgs}

\* the handler returns the store and the event log it was given
Untouched(r) == r.store = store /\ r.events = events

\* C40: getNodeInfo, getContractStats, getThreatReport and
\* getGlobalThreatList, whether they succeed or fail, whoever calls them and
\* whatever the contract state (Paused included), return with the store and
\* the event log exactly as they were.
C40_QueriesReadOnly ==
    \A c \in ReadProbes : Untouched(InvokeContract(store, events, c))

\* the contract is Paused, a node is staked, and one query of it succeeds
\* while another query fails
C40_Witness ==
    /\ ContractPaused
    /\ Alice \in Staked(store)
    /\ InvokeContract(store, events,
           Ctx(Bob, now, [method |-> "getNodeInfo", node_address |-> Alice])).err = Nil
    /\ InvokeContract(store, events,
           Ctx(Bob, now, [method |-> "getThreatReport"])).err # Nil
====
